---- MODULE Spec2Model ----
(***************************************************************************)
(* Model of the CUP waypoint tooling of aero-data-fe:                      *)
(*   - utils/naviter/helpers.py   coordinate and distance conversions      *)
(*   - utils/naviter/waypoint.py  CupWaypoint and its validating setters   *)
(*   - utils/naviter/cup.py       CupFile.loads / dumps                    *)
(*   - src/update_airports_in_cup.py  the airport reconciliation run       *)
(*                                                                         *)
(* Text is modelled as TLA+ strings, processed character by character.     *)
(* Latitude and longitude are fixed point, in 1/60000 degree (one          *)
(* thousandth of a minute); distances are binary64 floats, computed        *)
(* exactly on integers of arbitrary size.                                  *)
(* Python None is the empty tuple <<>>, a present value v is <<v>>.        *)
(***************************************************************************)
EXTENDS Integers, Sequences, FiniteSets, TLC

(***************************************************************************)
(* Strings                                                                 *)
(***************************************************************************)
Digits == "0123456789"

\* s[i-1:j] of Python: the characters i .. j of s that exist
Sub(s, i, j) ==
    LET jj == IF j > Len(s) THEN Len(s) ELSE j
    IN IF i < 1 \/ i > jj THEN "" ELSE SubSeq(s, i, jj)

\* the i-th character of s, as a one-character string ("" past the end)
Ch(s, i) == Sub(s, i, i)

\* the smallest and the largest element of a non-empty set of integers
SetMin(S) == CHOOSE j \in S : \A k \in S : j <= k
SetMax(S) == CHOOSE j \in S : \A k \in S : j >= k

MinOrZero(S) == IF S = {} THEN 0 ELSE SetMin(S)

\* position (1-based) of the first occurrence of character c in s at or after
\* i, 0 when absent
IndexIn(c, s, i) == MinOrZero({j \in i .. Len(s) : Ch(s, j) = c})

\* the characters of s
CharsOf(s) == {Ch(s, i) : i \in 1 .. Len(s)}

(***************************************************************************)
(* Unicode.  A string of this module holds the characters below U+0100 but *)
(* the grave accent, and of the others up to U+FFFF those whose code ends  *)
(* in a byte of 80 to FF; the tables list the characters of each kind      *)
(* among them, as unicodedata of the interpreter gives them.               *)
(***************************************************************************)
\* the decimal digits (category Nd), which \d of a regular expression
\* matches and int() and float() read: ten by ten from the zero of a script
DecimalDigits ==
    "0123456789۰۱۲۳۴۵۶۷۸۹߀߁߂߃߄߅߆߇߈߉০১২৩৪৫৬৭৮৯૦૧૨૩૪૫૬૭૮૯௦௧௨௩௪௫௬௭௮௯"
       \o "೦೧೨೩೪೫೬೭೮೯෦෧෨෩෪෫෬෭෮෯໐໑໒໓໔໕໖໗໘໙႐႑႒႓႔႕႖႗႘႙០១២៣៤៥៦៧៨៩᧐᧑᧒᧓᧔᧕᧖᧗᧘᧙"
       \o "᪀᪁᪂᪃᪄᪅᪆᪇᪈᪉᪐᪑᪒᪓᪔᪕᪖᪗᪘᪙᮰᮱᮲᮳᮴᮵᮶᮷᮸᮹꣐꣑꣒꣓꣔꣕꣖꣗꣘꣙꧐꧑꧒꧓꧔꧕꧖꧗꧘꧙꧰꧱꧲꧳꧴꧵꧶꧷꧸꧹"
       \o "꯰꯱꯲꯳꯴꯵꯶꯷꯸꯹"

DecimalSet == CharsOf(DecimalDigits)

DigitValues == [c \in DecimalSet |-> (IndexIn(c, DecimalDigits, 1) - 1) % 10]

\* \d
IsDigit(c) == c \in DecimalSet

DigitVal(c) == DigitValues[c]

\* the part of s from its first to its last position in keep
Span(s, keep) == IF keep = {} THEN "" ELSE Sub(s, SetMin(keep), SetMax(keep))

\* str.strip(chars)
StripSet(s, cs) == Span(s, {j \in 1 .. Len(s) : IndexIn(Ch(s, j), cs, 1) = 0})

\* the characters of str.isspace(), which str.strip(), int() and \s of a
\* regular expression take for white space: blank, \t, \n, \r, \f, U+000B,
\* U+001C .. U+001F, U+0085, U+00A0, U+1680 (the wider spaces U+2000 ..
\* U+3000 cannot be written in a string of this module)
Whitespace == " \t\n\r\f  "

\* str.strip()
Strip(s) == StripSet(s, Whitespace)

\* the white space int() and float() drop at the two ends of a str: that of
\* str.isspace() but U+001C .. U+001F, which they take for part of the number
NumberSpace == " \t\n\r\f  "

\* A str with a character that no string of this module can hold is written
\* as wide text: the sequence of its characters, each a string of one
\* character or, when no string can hold it, the name of its code point,
\* "U+0253".  str.lower() and str.upper() give wide text.

\* the letters that str.lower() replaces by a letter no string can hold, and
\* those letters in the same order
LowerWideFrom ==
    "ƁƆƉƊƏƐƓƔƖƗƜƝƟϽϾϿႠႡႢႣႤႥႦႧႨႩႪႫႬႭႮႯႰႱႲႳႴႵႶႷႸႹႺႻႼႽႾႿჀჁჂჃჄჅჇჍᎠᎡᎢᎣ"
       \o "ᎤᎥᎦᎧᎨᎩᎪᎫᎬᎭᎮᎯᾺΆῈΈῊΉῚΊῪΎῸΌῺΏꞍꞪꞫꞬꞭꞮꞳ"

LowerWideTo ==
    <<"U+0253", "U+0254", "U+0256", "U+0257", "U+0259", "U+025B", "U+0260",
      "U+0263", "U+0269", "U+0268", "U+026F", "U+0272", "U+0275", "U+037B",
      "U+037C", "U+037D", "U+2D00", "U+2D01", "U+2D02", "U+2D03", "U+2D04",
      "U+2D05", "U+2D06", "U+2D07", "U+2D08", "U+2D09", "U+2D0A", "U+2D0B",
      "U+2D0C", "U+2D0D", "U+2D0E", "U+2D0F", "U+2D10", "U+2D11", "U+2D12",
      "U+2D13", "U+2D14", "U+2D15", "U+2D16", "U+2D17", "U+2D18", "U+2D19",
      "U+2D1A", "U+2D1B", "U+2D1C", "U+2D1D", "U+2D1E", "U+2D1F", "U+2D20",
      "U+2D21", "U+2D22", "U+2D23", "U+2D24", "U+2D25", "U+2D27", "U+2D2D",
      "U+AB70", "U+AB71", "U+AB72", "U+AB73", "U+AB74", "U+AB75", "U+AB76",
      "U+AB77", "U+AB78", "U+AB79", "U+AB7A", "U+AB7B", "U+AB7C", "U+AB7D",
      "U+AB7E", "U+AB7F", "U+1F70", "U+1F71", "U+1F72", "U+1F73", "U+1F74",
      "U+1F75", "U+1F76", "U+1F77", "U+1F7A", "U+1F7B", "U+1F78", "U+1F79",
      "U+1F7C", "U+1F7D", "U+0265", "U+0266", "U+025C", "U+0261", "U+026C",
      "U+026A", "U+AB53">>

\* the letters that str.upper() replaces by a letter no string can hold, or
\* by two or three characters of which one is such, and what replaces them
\* in the same order
UpperWideFrom ==
    "ÿƀƚƞǰʉʌΐΰϳրցւփքօֆևᲀᲁᲂᲃᲄᲅᲆᲇᲈẖẗẘẙẛᾀᾁᾂᾃᾄᾅᾆᾇᾈᾉᾊᾋᾌᾍᾎᾏᾐᾑᾒᾓᾔᾕᾖᾗᾘᾙᾚᾛ"
       \o "ᾜᾝᾞᾟᾠᾡᾢᾣᾤᾥᾦᾧᾨᾩᾪᾫᾬᾭᾮᾯᾶᾷῆῇῒΐῖῗῢΰῤῦῧῶῷ"

UpperWideTo ==
    <<<<"U+0178">>, <<"U+0243">>, <<"U+023D">>, <<"U+0220">>,
      <<"J", "U+030C">>, <<"U+0244">>, <<"U+0245">>,
      <<"Ι", "U+0308", "U+0301">>, <<"Υ", "U+0308", "U+0301">>, <<"U+037F">>,
      <<"U+0550">>, <<"U+0551">>, <<"U+0552">>, <<"U+0553">>, <<"U+0554">>,
      <<"U+0555">>, <<"U+0556">>, <<"U+0535", "U+0552">>, <<"U+0412">>,
      <<"U+0414">>, <<"U+041E">>, <<"U+0421">>, <<"U+0422">>, <<"U+0422">>,
      <<"U+042A">>, <<"U+0462">>, <<"U+A64A">>, <<"H", "U+0331">>,
      <<"T", "U+0308">>, <<"W", "U+030A">>, <<"Y", "U+030A">>, <<"U+1E60">>,
      <<"U+1F08", "Ι">>, <<"U+1F09", "Ι">>, <<"U+1F0A", "Ι">>,
      <<"U+1F0B", "Ι">>, <<"U+1F0C", "Ι">>, <<"U+1F0D", "Ι">>,
      <<"U+1F0E", "Ι">>, <<"U+1F0F", "Ι">>, <<"U+1F08", "Ι">>,
      <<"U+1F09", "Ι">>, <<"U+1F0A", "Ι">>, <<"U+1F0B", "Ι">>,
      <<"U+1F0C", "Ι">>, <<"U+1F0D", "Ι">>, <<"U+1F0E", "Ι">>,
      <<"U+1F0F", "Ι">>, <<"U+1F28", "Ι">>, <<"U+1F29", "Ι">>,
      <<"U+1F2A", "Ι">>, <<"U+1F2B", "Ι">>, <<"U+1F2C", "Ι">>,
      <<"U+1F2D", "Ι">>, <<"U+1F2E", "Ι">>, <<"U+1F2F", "Ι">>,
      <<"U+1F28", "Ι">>, <<"U+1F29", "Ι">>, <<"U+1F2A", "Ι">>,
      <<"U+1F2B", "Ι">>, <<"U+1F2C", "Ι">>, <<"U+1F2D", "Ι">>,
      <<"U+1F2E", "Ι">>, <<"U+1F2F", "Ι">>, <<"U+1F68", "Ι">>,
      <<"U+1F69", "Ι">>, <<"U+1F6A", "Ι">>, <<"U+1F6B", "Ι">>,
      <<"U+1F6C", "Ι">>, <<"U+1F6D", "Ι">>, <<"U+1F6E", "Ι">>,
      <<"U+1F6F", "Ι">>, <<"U+1F68", "Ι">>, <<"U+1F69", "Ι">>,
      <<"U+1F6A", "Ι">>, <<"U+1F6B", "Ι">>, <<"U+1F6C", "Ι">>,
      <<"U+1F6D", "Ι">>, <<"U+1F6E", "Ι">>, <<"U+1F6F", "Ι">>,
      <<"Α", "U+0342">>, <<"Α", "U+0342", "Ι">>, <<"Η", "U+0342">>,
      <<"Η", "U+0342", "Ι">>, <<"Ι", "U+0308", "U+0300">>,
      <<"Ι", "U+0308", "U+0301">>, <<"Ι", "U+0342">>,
      <<"Ι", "U+0308", "U+0342">>, <<"Υ", "U+0308", "U+0300">>,
      <<"Υ", "U+0308", "U+0301">>, <<"Ρ", "U+0313">>, <<"Υ", "U+0342">>,
      <<"Υ", "U+0308", "U+0342">>, <<"Ω", "U+0342">>, <<"Ω", "U+0342", "Ι">>>>

\* the letters that str.lower() replaces by one other letter that a string can
\* hold, and those letters in the same order
LowerFrom ==
    "ABCDEFGHIJKLMNOPQRSTUVWXYZÀÁÂÃÄÅÆÇÈÉÊËÌÍÎÏÐÑÒÓÔÕÖØÙÚÛÜÝÞƂƄƇƋ"
       \o "ƎƑƘƠƢƤƦƧƩƬƮƯƱƲƳƵƷƸƼǄǅǇǈǊǋǍǏǑǓǕǗǙǛǞǠǢǤǦǨǪǬǮǱǲǴǶǷǸǺǼǾΆΈΉΊΌΎΏΑΒ"
       \o "ΓΔΕΖΗΘΙΚΛΜΝΞΟΠΡΣΤΥΦΧΨΩΪΫϏϘϚϜϞϠϢϤϦϨϪϬϮϴϷϹϺҀҊҌҎҐҒҔҖҘҚҜҞҠҢҤҦҨҪҬ"
       \o "ҮҰҲҴҶҸҺҼҾӀӁӃӅӇӉӋӍӐӒӔӖӘӚӜӞӠӢӤӦӨӪӬӮӰӲӴӶӸӺӼӾᎰᎱᎲᎳᎴᎵᎶᎷᎸᎹᎺᎻᎼᎽᎾᎿᏀᏁᏂ"
       \o "ᏃᏄᏅᏆᏇᏈᏉᏊᏋᏌᏍᏎᏏᏐᏑᏒᏓᏔᏕᏖᏗᏘᏙᏚᏛᏜᏝᏞᏟᏠᏡᏢᏣᏤᏥᏦᏧᏨᏩᏪᏫᏬᏭᏮᏯᏰᏱᏲᏳᏴᏵᲐᲑᲒᲓᲔᲕᲖᲗᲘ"
       \o "ᲙᲚᲛᲜᲝᲞᲟᲠᲡᲢᲣᲤᲥᲦᲧᲨᲩᲪᲫᲬᲭᲮᲯᲰᲱᲲᲳᲴᲵᲶᲷᲸᲹᲺᲽᲾᲿẀẂẄẆẈẊẌẎẐẒẔẞẠẢẤẦẨẪẬẮẰẲẴ"
       \o "ẶẸẺẼẾỀỂỄỆỈỊỌỎỐỒỔỖỘỚỜỞỠỢỤỦỨỪỬỮỰỲỴỶỸỺỼỾᾈᾉᾊᾋᾌᾍᾎᾏᾘᾙᾚᾛᾜᾝᾞᾟᾨᾩᾪᾫᾬᾭᾮ"
       \o "ᾯᾸᾹᾼῌῘῙῨῩῬῼↃⒶⒷⒸⒹⒺⒻⒼⒽⒾⒿⓀⓁⓂⓃⓄⓅⓆⓇⓈⓉⓊⓋⓌⓍⓎⓏⲀⲂⲄⲆⲈⲊⲌⲎⲐⲒⲔⲖⲘⲚⲜⲞⲠⲢⲤⲦⲨⲪ"
       \o "ⲬⲮⲰⲲⲴⲶⲸⲺⲼⲾⳀⳂⳄⳆⳈⳊⳌⳎⳐⳒⳔⳖⳘⳚⳜⳞⳠⳢⳫⳭⳲꚀꚂꚄꚆꚈꚊꚌꚎꚐꚒꚔꚖꚘꚚꞀꞂꞄꞆꞋꞐꞒꞖꞘꞚꞜꞞꞠꞢꞤ"
       \o "ꞦꞨꞰꞱꞲꞴꞶꞸꞺꞼꞾꟀꟂꟄꟅꟆꟇꟉꟐꟖꟘꟵ"

LowerTo ==
    "abcdefghijklmnopqrstuvwxyzàáâãäåæçèéêëìíîïðñòóôõöøùúûüýþƃƅƈƌ"
       \o "ǝƒƙơƣƥʀƨʃƭʈưʊʋƴƶʒƹƽǆǆǉǉǌǌǎǐǒǔǖǘǚǜǟǡǣǥǧǩǫǭǯǳǳǵƕƿǹǻǽǿάέήίόύώαβ"
       \o "γδεζηθικλμνξοπρστυφχψωϊϋϗϙϛϝϟϡϣϥϧϩϫϭϯθϸϲϻҁҋҍҏґғҕҗҙқҝҟҡңҥҧҩҫҭ"
       \o "үұҳҵҷҹһҽҿӏӂӄӆӈӊӌӎӑӓӕӗәӛӝӟӡӣӥӧөӫӭӯӱӳӵӷӹӻӽӿꮀꮁꮂꮃꮄꮅꮆꮇꮈꮉꮊꮋꮌꮍꮎꮏꮐꮑꮒ"
       \o "ꮓꮔꮕꮖꮗꮘꮙꮚꮛꮜꮝꮞꮟꮠꮡꮢꮣꮤꮥꮦꮧꮨꮩꮪꮫꮬꮭꮮꮯꮰꮱꮲꮳꮴꮵꮶꮷꮸꮹꮺꮻꮼꮽꮾꮿᏸᏹᏺᏻᏼᏽაბგდევზთი"
       \o "კლმნოპჟრსტუფქღყშჩცძწჭხჯჰჱჲჳჴჵჶჷჸჹჺჽჾჿẁẃẅẇẉẋẍẏẑẓẕßạảấầẩẫậắằẳẵ"
       \o "ặẹẻẽếềểễệỉịọỏốồổỗộớờởỡợụủứừửữựỳỵỷỹỻỽỿᾀᾁᾂᾃᾄᾅᾆᾇᾐᾑᾒᾓᾔᾕᾖᾗᾠᾡᾢᾣᾤᾥᾦ"
       \o "ᾧᾰᾱᾳῃῐῑῠῡῥῳↄⓐⓑⓒⓓⓔⓕⓖⓗⓘⓙⓚⓛⓜⓝⓞⓟⓠⓡⓢⓣⓤⓥⓦⓧⓨⓩⲁⲃⲅⲇⲉⲋⲍⲏⲑⲓⲕⲗⲙⲛⲝⲟⲡⲣⲥⲧⲩⲫ"
       \o "ⲭⲯⲱⲳⲵⲷⲹⲻⲽⲿⳁⳃⳅⳇⳉⳋⳍⳏⳑⳓⳕⳗⳙⳛⳝⳟⳡⳣⳬⳮⳳꚁꚃꚅꚇꚉꚋꚍꚏꚑꚓꚕꚗꚙꚛꞁꞃꞅꞇꞌꞑꞓꞗꞙꞛꞝꞟꞡꞣꞥ"
       \o "ꞧꞩʞʇʝꞵꞷꞹꞻꞽꞿꟁꟃꞔʂᶎꟈꟊꟑꟗꟙꟶ"

\* the letters that str.upper() replaces by one other letter that a string can
\* hold, and those letters in the same order
UpperFrom ==
    "abcdefghijklmnopqrstuvwxyzµàáâãäåæçèéêëìíîïðñòóôõöøùúûüýþƃƅƈ"
       \o "ƌƒƕƙơƣƥƨƭưƴƶƹƽƿǅǆǈǉǋǌǎǐǒǔǖǘǚǜǝǟǡǣǥǧǩǫǭǯǲǳǵǹǻǽǿʀʂʃʇʈʊʋʒʝʞάέήί"
       \o "αβγδεζηθικλμνξοπρςστυφχψωϊϋόύώϐϑϕϖϗϙϛϝϟϡϣϥϧϩϫϭϯϰϱϲϵϸϻҁҋҍҏґғҕ"
       \o "җҙқҝҟҡңҥҧҩҫҭүұҳҵҷҹһҽҿӂӄӆӈӊӌӎӏӑӓӕӗәӛӝӟӡӣӥӧөӫӭӯӱӳӵӷӹӻӽӿაბგდევზ"
       \o "თიკლმნოპჟრსტუფქღყშჩცძწჭხჯჰჱჲჳჴჵჶჷჸჹჺჽჾჿᏸᏹᏺᏻᏼᏽᶎẁẃẅẇẉẋẍẏẑẓẕạảấ"
       \o "ầẩẫậắằẳẵặẹẻẽếềểễệỉịọỏốồổỗộớờởỡợụủứừửữựỳỵỷỹỻỽỿᾰᾱιῐῑῠῡῥↄⓐⓑⓒⓓⓔⓕ"
       \o "ⓖⓗⓘⓙⓚⓛⓜⓝⓞⓟⓠⓡⓢⓣⓤⓥⓦⓧⓨⓩⲁⲃⲅⲇⲉⲋⲍⲏⲑⲓⲕⲗⲙⲛⲝⲟⲡⲣⲥⲧⲩⲫⲭⲯⲱⲳⲵⲷⲹⲻⲽⲿⳁⳃⳅⳇⳉⳋⳍⳏ"
       \o "ⳑⳓⳕⳗⳙⳛⳝⳟⳡⳣⳬⳮⳳꚁꚃꚅꚇꚉꚋꚍꚏꚑꚓꚕꚗꚙꚛꞁꞃꞅꞇꞌꞑꞓꞔꞗꞙꞛꞝꞟꞡꞣꞥꞧꞩꞵꞷꞹꞻꞽꞿꟁꟃꟈꟊꟑꟗꟙꟶꮀ"
       \o "ꮁꮂꮃꮄꮅꮆꮇꮈꮉꮊꮋꮌꮍꮎꮏꮐꮑꮒꮓꮔꮕꮖꮗꮘꮙꮚꮛꮜꮝꮞꮟꮠꮡꮢꮣꮤꮥꮦꮧꮨꮩꮪꮫꮬꮭꮮꮯꮰꮱꮲꮳꮴꮵꮶꮷꮸꮹꮺꮻꮼ"
       \o "ꮽꮾꮿ"

UpperTo ==
    "ABCDEFGHIJKLMNOPQRSTUVWXYZΜÀÁÂÃÄÅÆÇÈÉÊËÌÍÎÏÐÑÒÓÔÕÖØÙÚÛÜÝÞƂƄƇ"
       \o "ƋƑǶƘƠƢƤƧƬƯƳƵƸƼǷǄǄǇǇǊǊǍǏǑǓǕǗǙǛƎǞǠǢǤǦǨǪǬǮǱǱǴǸǺǼǾƦꟅƩꞱƮƱƲƷꞲꞰΆΈΉΊ"
       \o "ΑΒΓΔΕΖΗΘΙΚΛΜΝΞΟΠΡΣΣΤΥΦΧΨΩΪΫΌΎΏΒΘΦΠϏϘϚϜϞϠϢϤϦϨϪϬϮΚΡϹΕϷϺҀҊҌҎҐҒҔ"
       \o "ҖҘҚҜҞҠҢҤҦҨҪҬҮҰҲҴҶҸҺҼҾӁӃӅӇӉӋӍӀӐӒӔӖӘӚӜӞӠӢӤӦӨӪӬӮӰӲӴӶӸӺӼӾᲐᲑᲒᲓᲔᲕᲖ"
       \o "ᲗᲘᲙᲚᲛᲜᲝᲞᲟᲠᲡᲢᲣᲤᲥᲦᲧᲨᲩᲪᲫᲬᲭᲮᲯᲰᲱᲲᲳᲴᲵᲶᲷᲸᲹᲺᲽᲾᲿᏰᏱᏲᏳᏴᏵꟆẀẂẄẆẈẊẌẎẐẒẔẠẢẤ"
       \o "ẦẨẪẬẮẰẲẴẶẸẺẼẾỀỂỄỆỈỊỌỎỐỒỔỖỘỚỜỞỠỢỤỦỨỪỬỮỰỲỴỶỸỺỼỾᾸᾹΙῘῙῨῩῬↃⒶⒷⒸⒹⒺⒻ"
       \o "ⒼⒽⒾⒿⓀⓁⓂⓃⓄⓅⓆⓇⓈⓉⓊⓋⓌⓍⓎⓏⲀⲂⲄⲆⲈⲊⲌⲎⲐⲒⲔⲖⲘⲚⲜⲞⲠⲢⲤⲦⲨⲪⲬⲮⲰⲲⲴⲶⲸⲺⲼⲾⳀⳂⳄⳆⳈⳊⳌⳎ"
       \o "ⳐⳒⳔⳖⳘⳚⳜⳞⳠⳢⳫⳭⳲꚀꚂꚄꚆꚈꚊꚌꚎꚐꚒꚔꚖꚘꚚꞀꞂꞄꞆꞋꞐꞒꟄꞖꞘꞚꞜꞞꞠꞢꞤꞦꞨꞴꞶꞸꞺꞼꞾꟀꟂꟇꟉꟐꟖꟘꟵᎰ"
       \o "ᎱᎲᎳᎴᎵᎶᎷᎸᎹᎺᎻᎼᎽᎾᎿᏀᏁᏂᏃᏄᏅᏆᏇᏈᏉᏊᏋᏌᏍᏎᏏᏐᏑᏒᏓᏔᏕᏖᏗᏘᏙᏚᏛᏜᏝᏞᏟᏠᏡᏢᏣᏤᏥᏦᏧᏨᏩᏪᏫᏬ"
       \o "ᏭᏮᏯ"

\* the letters that str.upper() replaces by two characters that a string can
\* hold
UpperLong ==
    <<<<"ß", "SS">>, <<"ẚ", "Aʾ">>, <<"ᾲ", "ᾺΙ">>, <<"ᾳ", "ΑΙ">>,
      <<"ᾴ", "ΆΙ">>, <<"ᾼ", "ΑΙ">>, <<"ῂ", "ῊΙ">>, <<"ῃ", "ΗΙ">>,
      <<"ῄ", "ΉΙ">>, <<"ῌ", "ΗΙ">>, <<"ῲ", "ῺΙ">>, <<"ῳ", "ΩΙ">>,
      <<"ῴ", "ΏΙ">>, <<"ῼ", "ΩΙ">>>>

\* the characters that are case-ignorable: the final form of a sigma is
\* decided across them
CaseIgnorable ==
    "'.:^¨­¯´·¸ʰʱʲʳʴʵʶʷʸʹʺʻʼʽʾʿˀˁ˂˃˄˅ˆˇˈˉˊˋˌˍˎˏːˑ˒˓˔˕˖˗˘˙˚˛˜˝˞˟ˠˡ"
       \o "ˢˣˤ˥˦˧˨˩˪˫ˬ˭ˮ˯˰˱˲˳˴˵˶˷˸˹˺˻˼˽˾˿΄΅·҃҄҅҆҇҈҉֑֖֛֢֣֤֚֒֓֔֕֗֘֙֜֝֞֟֠֡"
       \o "ְֱֲֳִֵֶַָׇֹֺֻּֽֿׁׂ֥֦֧֪ׅ֭֮֨֩֫֬֯ׄ״ۖۗۘۙۚۛۜ۝ۣ۟۠ۡۢۤۥۦ۪ۭۧۨ۫۬ަާިީުޫ"
       \o "ެޭޮޯް߲߫߬߭߮߯߰߱߳ߴߵߺ߽࢈࢐࢑࢙࢚࢛࢘࢜࢝࢞࢟ࣉ࣏࣐࣑࣒࣓࣊࣋࣌࣍࣎ࣔࣕࣖࣗࣘࣙࣚࣛࣜࣝࣞࣟ࣠࣡࣢ࣣࣦࣤࣥࣧ"
       \o "ࣰࣱࣲࣩ࣭࣮࣯ࣶࣹࣺࣨ࣪࣫࣬ࣳࣴࣵࣷࣸࣻࣼࣽࣾࣿঁ়ুূৃৄ্ৢৣ৾ઁં઼ુૂૃૄૅેૈ્ૢૣૺૻૼ૽૾૿ஂீ்ಁ಼ಿೆ"
       \o "ೌ್ೢೣඁ්ිීුූັິີຶື຺ຸູົຼໆ່້໊໋໌ໍ྄ཱྀྀྂྃ྆྇ྍྎྏྐྑྒྒྷྔྕྖྗྙྚྛྜྜྷྞྟྠྡྡྷྣྤྥྦྦྷ"
       \o "ྨྩྪྫྫྷྭྮྯྰྱྲླྴྵྶྷྸྐྵྺྻྼ࿆ႂႅႆႍႝჼ឴឵ិីឹឺុូួំ៉៊់៌៍៎៏័៑្៓ៗ៝ᢅᢆᢩᪧ᪰᪱᪲᪳᪴"
       \o "᪵᪶᪷᪸᪹᪺᪽᪻᪼᪾ᪿᫀ᫃᫄᫊᫁᫂᫅᫆᫇᫈᫉᫋ᫌᫍᫎᮀᮁᮢᮣᮤᮥᮨᮩ᮫ᮬᮭ᯦ᯨᯩᯭᯯᯰᯱ᳔᳕᳖᳗᳘᳙᳜᳝᳞᳟᳐᳑᳒᳚᳛᳠"
       \o "᳢᳣᳤᳥᳦᳧᳨᳭᳴᳸᳹ᶛᶜᶝᶞᶟᶠᶡᶢᶣᶤᶥᶦᶧᶨᶩᶪᶫᶬᶭᶮᶯᶰᶱᶲᶳᶴᶵᶶᶷᶸᶹᶺᶻᶼᶽᶾᶿ᷂᷊᷀᷁᷃᷄᷅᷆᷇᷈᷉᷋"
       \o "᷐᷎᷺᷏᷹᷽᷿᷷᷸᷌᷑᷒ᷓᷔᷕᷖᷗᷘᷙᷚᷛᷜᷝᷞᷟᷠᷡᷢᷣᷤᷥᷦᷧᷨᷩᷪᷫᷬᷭᷮᷯᷰᷱᷲᷳᷴ᷵᷻᷾᷶᷼᷍᾽᾿῀῁῍῎῏῝"
       \o "῞῟῭΅`´῾ₐₑₒₓₔₕₖₗₘₙₚₛₜ⃒⃓⃘⃙⃚⃐⃑⃔⃕⃖⃗⃛⃜⃝⃞⃟⃠⃡⃢⃣⃤⃥⃦⃪⃫⃨⃬⃭⃮⃯⃧⃩⃰⳯⳰⳱ⷠⷡⷢⷣ"
       \o "゙゚ⷤⷥⷦⷧⷨⷩⷪⷫⷬⷭⷮⷯⷰⷱⷲⷳⷴⷵⷶⷷⷸⷹⷺⷻⷼⷽⷾⷿ゛゜ゝゞーヽヾꓸꓹꓺꓻꓼꓽꚜꚝꚞꚟ꛰꛱ꞈ꞉꞊ꟲꟳꟴꟸꟹ꣄ꣅ꣠"
       \o "꣡꣢꣣꣤꣥꣦꣧꣨꣩꣪꣫꣬꣭꣮꣯꣰꣱ꣿꦀꦁꦂ꦳ꦶꦷꦸꦹꦼꦽꧏꧥꧦꪴꪰꪲꪳꪷꪸꪾ꪿꫁ꫝꫬꫭꫳꫴ꫶ꯥꯨ꯭﮲﮳﮴﮵﮶﮷﮸﮹﮺﮻﮼"
       \o "﮽﮾﮿﯀﯁﯂﻿ﾞﾟ￣￹￺￻"

\* the cased letters that are not case-ignorable
CasedLetters ==
    "ABCDEFGHIJKLMNOPQRSTUVWXYZabcdefghijklmnopqrstuvwxyzªµºÀÁÂÃÄ"
       \o "ÅÆÇÈÉÊËÌÍÎÏÐÑÒÓÔÕÖØÙÚÛÜÝÞßàáâãäåæçèéêëìíîïðñòóôõöøùúûüýþÿƀƁƂ"
       \o "ƃƄƅƆƇƈƉƊƋƌƍƎƏƐƑƒƓƔƕƖƗƘƙƚƛƜƝƞƟƠơƢƣƤƥƦƧƨƩƪƫƬƭƮƯưƱƲƳƴƵƶƷƸƹƺƼƽƾƿ"
       \o "ǄǅǆǇǈǉǊǋǌǍǎǏǐǑǒǓǔǕǖǗǘǙǚǛǜǝǞǟǠǡǢǣǤǥǦǧǨǩǪǫǬǭǮǯǰǱǲǳǴǵǶǷǸǹǺǻǼǽǾǿ"
       \o "ʀʁʂʃʄʅʆʇʈʉʊʋʌʍʎʏʐʑʒʓʕʖʗʘʙʚʛʜʝʞʟʠʡʢʣʤʥʦʧʨʩʪʫʬʭʮʯΆΈΉΊΌΎΏΐΑΒΓΔΕ"
       \o "ΖΗΘΙΚΛΜΝΞΟΠΡΣΤΥΦΧΨΩΪΫάέήίΰαβγδεζηθικλμνξοπρςστυφχψωϊϋόύώϏϐϑϒ"
       \o "ϓϔϕϖϗϘϙϚϛϜϝϞϟϠϡϢϣϤϥϦϧϨϩϪϫϬϭϮϯϰϱϲϳϴϵϷϸϹϺϻϼϽϾϿҀҁҊҋҌҍҎҏҐґҒғҔҕҖҗ"
       \o "ҘҙҚқҜҝҞҟҠҡҢңҤҥҦҧҨҩҪҫҬҭҮүҰұҲҳҴҵҶҷҸҹҺһҼҽҾҿӀӁӂӃӄӅӆӇӈӉӊӋӌӍӎӏӐӑӒӓ"
       \o "ӔӕӖӗӘәӚӛӜӝӞӟӠӡӢӣӤӥӦӧӨөӪӫӬӭӮӯӰӱӲӳӴӵӶӷӸӹӺӻӼӽӾӿրցւփքօֆևֈႠႡႢႣႤႥႦ"
       \o "ႧႨႩႪႫႬႭႮႯႰႱႲႳႴႵႶႷႸႹႺႻႼႽႾႿჀჁჂჃჄჅჇჍაბგდევზთიკლმნოპჟრსტუფქღყშჩც"
       \o "ძწჭხჯჰჱჲჳჴჵჶჷჸჹჺჽჾჿᎠᎡᎢᎣᎤᎥᎦᎧᎨᎩᎪᎫᎬᎭᎮᎯᎰᎱᎲᎳᎴᎵᎶᎷᎸᎹᎺᎻᎼᎽᎾᎿᏀᏁᏂᏃᏄᏅᏆᏇᏈ"
       \o "ᏉᏊᏋᏌᏍᏎᏏᏐᏑᏒᏓᏔᏕᏖᏗᏘᏙᏚᏛᏜᏝᏞᏟᏠᏡᏢᏣᏤᏥᏦᏧᏨᏩᏪᏫᏬᏭᏮᏯᏰᏱᏲᏳᏴᏵᏸᏹᏺᏻᏼᏽᲀᲁᲂᲃᲄᲅᲆᲇᲈ"
       \o "ᲐᲑᲒᲓᲔᲕᲖᲗᲘᲙᲚᲛᲜᲝᲞᲟᲠᲡᲢᲣᲤᲥᲦᲧᲨᲩᲪᲫᲬᲭᲮᲯᲰᲱᲲᲳᲴᲵᲶᲷᲸᲹᲺᲽᲾᲿᶀᶁᶂᶃᶄᶅᶆᶇᶈᶉᶊᶋᶌᶍ"
       \o "ᶎᶏᶐᶑᶒᶓᶔᶕᶖᶗᶘᶙᶚẀẁẂẃẄẅẆẇẈẉẊẋẌẍẎẏẐẑẒẓẔẕẖẗẘẙẚẛẜẝẞẟẠạẢảẤấẦầẨẩẪẫẬậẮ"
       \o "ắẰằẲẳẴẵẶặẸẹẺẻẼẽẾếỀềỂểỄễỆệỈỉỊịỌọỎỏỐốỒồỔổỖỗỘộỚớỜờỞởỠỡỢợỤụỦủỨứỪ"
       \o "ừỬửỮữỰựỲỳỴỵỶỷỸỹỺỻỼỽỾỿᾀᾁᾂᾃᾄᾅᾆᾇᾈᾉᾊᾋᾌᾍᾎᾏᾐᾑᾒᾓᾔᾕᾖᾗᾘᾙᾚᾛᾜᾝᾞᾟᾠᾡᾢᾣᾤᾥᾦ"
       \o "ᾧᾨᾩᾪᾫᾬᾭᾮᾯᾰᾱᾲᾳᾴᾶᾷᾸᾹᾺΆᾼιῂῃῄῆῇῈΈῊΉῌῐῑῒΐῖῗῘῙῚΊῠῡῢΰῤῥῦῧῨῩῪΎῬῲῳῴῶῷ"
       \o "ῸΌῺΏῼↃↄⒶⒷⒸⒹⒺⒻⒼⒽⒾⒿⓀⓁⓂⓃⓄⓅⓆⓇⓈⓉⓊⓋⓌⓍⓎⓏⓐⓑⓒⓓⓔⓕⓖⓗⓘⓙⓚⓛⓜⓝⓞⓟⓠⓡⓢⓣⓤⓥⓦⓧⓨⓩⲀ"
       \o "ⲁⲂⲃⲄⲅⲆⲇⲈⲉⲊⲋⲌⲍⲎⲏⲐⲑⲒⲓⲔⲕⲖⲗⲘⲙⲚⲛⲜⲝⲞⲟⲠⲡⲢⲣⲤⲥⲦⲧⲨⲩⲪⲫⲬⲭⲮⲯⲰⲱⲲⲳⲴⲵⲶⲷⲸⲹⲺⲻⲼ"
       \o "ⲽⲾⲿⳀⳁⳂⳃⳄⳅⳆⳇⳈⳉⳊⳋⳌⳍⳎⳏⳐⳑⳒⳓⳔⳕⳖⳗⳘⳙⳚⳛⳜⳝⳞⳟⳠⳡⳢⳣⳤⳫⳬⳭⳮⳲⳳꚀꚁꚂꚃꚄꚅꚆꚇꚈꚉꚊꚋꚌꚍ"
       \o "ꚎꚏꚐꚑꚒꚓꚔꚕꚖꚗꚘꚙꚚꚛꞀꞁꞂꞃꞄꞅꞆꞇꞋꞌꞍꞎꞐꞑꞒꞓꞔꞕꞖꞗꞘꞙꞚꞛꞜꞝꞞꞟꞠꞡꞢꞣꞤꞥꞦꞧꞨꞩꞪꞫꞬꞭꞮꞯꞰꞱ"
       \o "ꞲꞳꞴꞵꞶꞷꞸꞹꞺꞻꞼꞽꞾꞿꟀꟁꟂꟃꟄꟅꟆꟇꟈꟉꟊꟐꟑꟓꟕꟖꟗꟘꟙꟵꟶꟺꮀꮁꮂꮃꮄꮅꮆꮇꮈꮉꮊꮋꮌꮍꮎꮏꮐꮑꮒꮓꮔꮕꮖꮗ"
       \o "ꮘꮙꮚꮛꮜꮝꮞꮟꮠꮡꮢꮣꮤꮥꮦꮧꮨꮩꮪꮫꮬꮭꮮꮯꮰꮱꮲꮳꮴꮵꮶꮷꮸꮹꮺꮻꮼꮽꮾꮿ"

LowerSet == CharsOf(LowerFrom)
LowerMap == [c \in LowerSet |-> Ch(LowerTo, IndexIn(c, LowerFrom, 1))]
LowerWideSet == CharsOf(LowerWideFrom)
LowerWideMap == [c \in LowerWideSet |-> LowerWideTo[IndexIn(c, LowerWideFrom, 1)]]
UpperSet == CharsOf(UpperFrom)
UpperMap == [c \in UpperSet |-> Ch(UpperTo, IndexIn(c, UpperFrom, 1))]
UpperWideSet == CharsOf(UpperWideFrom)
UpperWideMap == [c \in UpperWideSet |-> UpperWideTo[IndexIn(c, UpperWideFrom, 1)]]
IgnorableSet == CharsOf(CaseIgnorable)
CasedSet == CharsOf(CasedLetters)

\* the characters of a string as wide text
Wide(s) == [i \in 1 .. Len(s) |-> Ch(s, i)]

\* a character of wide text as patterns and comparisons with texts of
\* writable characters see it: one that no string can hold is none of
\* theirs, and stands as U+FFFD
PlainCh(c) == IF Len(c) = 1 THEN c ELSE "�"

RECURSIVE PlainRange(_, _, _)
PlainRange(w, lo, hi) ==
    IF lo > hi THEN ""
    ELSE IF lo = hi THEN PlainCh(w[lo])
    ELSE PlainRange(w, lo, (lo + hi) \div 2) \o PlainRange(w, (lo + hi) \div 2 + 1, hi)

\* wide text as a string for a match or a comparison
Plain(w) == PlainRange(w, 1, Len(w))

\* str.lower() of one character by itself, a character of wide text; the
\* match of a letter by a regular expression compiled with re.IGNORECASE
LowerCh(c) ==
    IF c \in LowerSet THEN LowerMap[c]
    ELSE IF c \in LowerWideSet THEN LowerWideMap[c]
    ELSE c

\* the places of c in UpperLong
UpperLongAt(c) == {i \in 1 .. Len(UpperLong) : UpperLong[i][1] = c}

\* str.upper() of one character: wide text
UpperCh(c) ==
    IF c \in UpperSet THEN <<UpperMap[c]>>
    ELSE IF c \in UpperWideSet THEN UpperWideMap[c]
    ELSE IF UpperLongAt(c) # {} THEN Wide(UpperLong[SetMin(UpperLongAt(c))][2])
    ELSE <<c>>

\* the capital sigma at position i of s is lowered to the final sigma: the
\* nearest character before it that is not case-ignorable is a cased letter,
\* and the nearest after it is not
FinalSigma(s, i, before, after) ==
    /\ before # {}
    /\ Ch(s, SetMax(before)) \in CasedSet
    /\ after = {} \/ Ch(s, SetMin(after)) \notin CasedSet

\* the character i of s in lower case
LowerAt(s, i) ==
    IF Ch(s, i) = "Σ"
    THEN IF FinalSigma(s, i, {j \in 1 .. i - 1 : Ch(s, j) \notin IgnorableSet},
                       {j \in i + 1 .. Len(s) : Ch(s, j) \notin IgnorableSet})
         THEN "ς" ELSE "σ"
    ELSE LowerCh(Ch(s, i))

\* str.lower(): wide text
Lower(s) == [i \in 1 .. Len(s) |-> LowerAt(s, i)]

RECURSIVE Upper(_)
\* str.upper(): wide text
Upper(s) ==
    IF Len(s) = 0 THEN <<>>
    ELSE IF Len(s) = 1 THEN UpperCh(s)
    ELSE Upper(Sub(s, 1, Len(s) \div 2)) \o Upper(Sub(s, Len(s) \div 2 + 1, Len(s)))

StartsWith(s, p) == Len(s) >= Len(p) /\ Sub(s, 1, Len(p)) = p

\* sub in s
Contains(s, sub) == \E i \in 1 .. Len(s) - Len(sub) + 1 : Sub(s, i, i + Len(sub) - 1) = sub

AllDigits(s) == \A i \in 1 .. Len(s) : IsDigit(Ch(s, i))

\* the characters str.isdigit() accepts besides the decimal digits:
\* superscripts, subscripts, circled digits and the like, which int() does
\* not read
OtherDigits ==
    "²³¹᧚₀₁₂₃₄₅₆₇₈₉⒈⒉⒊⒋⒌⒍⒎⒏⒐⓪⓵⓶⓷⓸⓹⓺⓻⓼⓽⓿➀➁➂➃➄➅➆➇➈➊➋➌➍➎➏➐➑➒"

DigitLike == DecimalSet \cup CharsOf(OtherDigits)

\* str.isdigit()
IsDigitStr(s) == Len(s) > 0 /\ \A i \in 1 .. Len(s) : Ch(s, i) \in DigitLike

RECURSIVE DigitsVal(_)
\* value of a string of decimal digits ("" is 0)
DigitsVal(s) ==
    IF Len(s) = 0 THEN 0
    ELSE 10 * DigitsVal(Sub(s, 1, Len(s) - 1)) + DigitVal(Ch(s, Len(s)))

RECURSIVE NatStr(_)
\* str(n) for n >= 0
NatStr(n) == IF n < 10 THEN Ch(Digits, n + 1) ELSE NatStr(n \div 10) \o Ch(Digits, (n % 10) + 1)

\* str(n)
IntStr(n) == IF n < 0 THEN "-" \o NatStr(0 - n) ELSE NatStr(n)

RECURSIVE Zeros(_)
\* n zeros
Zeros(n) == IF n <= 0 THEN "" ELSE IF n = 1 THEN "0" ELSE Zeros(n \div 2) \o Zeros(n - n \div 2)

\* left-pad with zeros to width w
ZeroPad(s, w) == Zeros(w - Len(s)) \o s

RECURSIVE DigitRun(_, _)
\* number of consecutive digits of s starting at position i
DigitRun(s, i) == IF i <= Len(s) /\ IsDigit(Ch(s, i)) THEN 1 + DigitRun(s, i + 1) ELSE 0

Pow10(k) == 10 ^ k

Abs(n) == IF n < 0 THEN 0 - n ELSE n

\* s from its first digit that is not a zero on
SigDigits(s) ==
    IF \A i \in 1 .. Len(s) : DigitVal(Ch(s, i)) = 0 THEN ""
    ELSE Sub(s, CHOOSE i \in 1 .. Len(s) :
                    /\ DigitVal(Ch(s, i)) # 0
                    /\ \A j \in 1 .. i - 1 : DigitVal(Ch(s, j)) = 0,
             Len(s))

\* int(s) of the digits of an exponent, where it matters: an exponent of
\* more than seven digits makes an infinity or a zero of every number, as
\* 9999999 does
ExpVal(s) ==
    IF Len(SigDigits(s)) > 7 THEN 9999999 ELSE DigitsVal(SigDigits(s))

\* Python None and present values
None == <<>>
Some(v) == <<v>>
IsNone(o) == o = <<>>
Get(o) == o[1]

(***************************************************************************)
(* utils/naviter/helpers.py                                                *)
(***************************************************************************)
\* latitude / longitude fixed point: units per degree and per minute
DegUnit == 60000
MinUnit == 1000

\* the two patterns CUP_LAT_REGEX (nd = 2, dirs = "ns") and CUP_LON_REGEX
\* (nd = 3, dirs = "ew"), matched at the start of c, case-insensitively:
\* (\d{nd})(\d{2}\.\d{1,3})(dir); run is the number of digits after the point
MatchCoordRun(c, nd, dirs, run) ==
    LET fracAt == nd + 4
        dirAt  == nd + 4 + run
    IN IF /\ Len(c) >= nd + 5
          /\ AllDigits(Sub(c, 1, nd + 2))
          /\ Ch(c, nd + 3) = "."
          /\ run >= 1 /\ run <= 3
          /\ dirAt <= Len(c)
          /\ IndexIn(LowerCh(Ch(c, dirAt)), dirs, 1) > 0
       THEN [ok  |-> TRUE,
             deg |-> DigitsVal(Sub(c, 1, nd)),
             min |-> DigitsVal(Sub(c, nd + 1, nd + 2)) * MinUnit
                     + DigitsVal(Sub(c, fracAt, fracAt + run - 1)) * Pow10(3 - run),
             dir |-> Ch(c, dirAt)]
       ELSE [ok |-> FALSE, deg |-> 0, min |-> 0, dir |-> ""]

MatchCoord(c, nd, dirs) == MatchCoordRun(c, nd, dirs, DigitRun(c, nd + 4))

\* "for pattern in (CUP_LAT_REGEX, CUP_LON_REGEX)": the first that matches c
FirstMatch(lat, c) == IF lat.ok THEN lat ELSE MatchCoord(c, 3, "ew")

\* the value of a match: [ok, v]; ok = FALSE is ValueError
MatchValue(m) ==
    IF ~m.ok THEN [ok |-> FALSE, v |-> 0]
    ELSE [ok |-> TRUE,
          v  |-> (IF m.dir = "N" \/ m.dir = "E" THEN 1 ELSE -1) * (m.deg * DegUnit + m.min)]

\* convert_lat_lon_to_dd for a str argument: [ok, v]; ok = FALSE is ValueError
ConvertStripped(c) == MatchValue(FirstMatch(MatchCoord(c, 2, "ns"), c))

convert_lat_lon_to_dd(coord) == ConvertStripped(Strip(coord))

\* format_decimal_degrees_to_cup: CUP_LAT_FORMAT "{deg:02d}{dec_min:06.3f}{dir}",
\* CUP_LON_FORMAT "{deg:03d}{dec_min:06.3f}{dir}"
format_decimal_degrees_to_cup(decimal_degrees, is_lat) ==
    LET direction == IF is_lat THEN (IF decimal_degrees >= 0 THEN "N" ELSE "S")
                     ELSE (IF decimal_degrees >= 0 THEN "E" ELSE "W")
        degrees == Abs(decimal_degrees) \div DegUnit
        decimal_minutes == Abs(decimal_degrees) % DegUnit
    IN ZeroPad(NatStr(degrees), IF is_lat THEN 2 ELSE 3)
       \o ZeroPad(NatStr(decimal_minutes \div MinUnit), 2) \o "."
       \o ZeroPad(NatStr(decimal_minutes % MinUnit), 3)
       \o direction

\* 1 when s has a sign at position i, else 0
SignLen(s, i) == IF Ch(s, i) = "-" \/ Ch(s, i) = "+" THEN 1 ELSE 0

\* the numeric part of CUP_DISTANCE_REGEX at the start of s:
\* [-+]?(\d+(\.\d*)?|\.\d+)([eE][-+]?\d+)?
\* [ok, neg, digits, decs, exp, end]: the value is that of the digits times
\* 10^(exp - decs), negative when neg; end is the last index.
\* The groups are matched one after the other: the sign and the integer
\* digits, the fraction, the exponent.
MatchNumberExp(s, signLen, intRun, hasDot, fracRun, mantEnd, eSign, eRun) ==
    LET dotAt  == signLen + intRun + 1
        eAt    == mantEnd + 1
        digits == Sub(s, signLen + 1, signLen + intRun)
                  \o (IF hasDot THEN Sub(s, dotAt + 1, dotAt + fracRun) ELSE "")
        eVal   == IF eRun > 0 THEN ExpVal(Sub(s, eAt + eSign + 1, eAt + eSign + eRun))
                  ELSE 0
    IN IF ~(intRun > 0 \/ (hasDot /\ fracRun > 0))
       THEN [ok |-> FALSE, neg |-> FALSE, digits |-> "", decs |-> 0, exp |-> 0, end |-> 0]
       ELSE [ok     |-> TRUE,
             neg    |-> signLen = 1 /\ Ch(s, 1) = "-",
             digits |-> digits,
             decs   |-> fracRun,
             exp    |-> IF eRun > 0 /\ eSign = 1 /\ Ch(s, eAt + 1) = "-" THEN 0 - eVal ELSE eVal,
             end    |-> IF eRun > 0 THEN eAt + eSign + eRun ELSE mantEnd]

MatchNumberMant(s, signLen, intRun, hasDot, fracRun, mantEnd, eSign) ==
    MatchNumberExp(s, signLen, intRun, hasDot, fracRun, mantEnd, eSign,
                   IF LowerCh(Ch(s, mantEnd + 1)) = "e"
                   THEN DigitRun(s, mantEnd + 1 + eSign + 1) ELSE 0)

MatchNumberFrac(s, signLen, intRun, hasDot, fracRun, mantEnd) ==
    MatchNumberMant(s, signLen, intRun, hasDot, fracRun, mantEnd,
                    IF LowerCh(Ch(s, mantEnd + 1)) = "e" THEN SignLen(s, mantEnd + 2) ELSE 0)

MatchNumberDot(s, signLen, intRun, hasDot, fracRun) ==
    MatchNumberFrac(s, signLen, intRun, hasDot, fracRun,
                    IF hasDot THEN signLen + intRun + 1 + fracRun ELSE signLen + intRun)

MatchNumberInt(s, signLen, intRun, hasDot) ==
    MatchNumberDot(s, signLen, intRun, hasDot,
                   IF hasDot THEN DigitRun(s, signLen + intRun + 2) ELSE 0)

MatchNumberSign(s, signLen, intRun) ==
    MatchNumberInt(s, signLen, intRun, Ch(s, signLen + intRun + 1) = ".")

MatchNumber(s) == MatchNumberSign(s, SignLen(s, 1), DigitRun(s, SignLen(s, 1) + 1))

\* the unit alternation (ft|m|nm|ml) of CUP_DISTANCE_REGEX at position i:
\* the first alternative that matches wins, so "ml" is read as "m"
MatchUnit(s, i) ==
    IF Sub(s, i, i + 1) = "ft" THEN "ft"
    ELSE IF Sub(s, i, i) = "m" THEN "m"
    ELSE IF Sub(s, i, i + 1) = "nm" THEN "nm"
    ELSE IF Sub(s, i, i + 1) = "ml" THEN "ml"
    ELSE ""

(***************************************************************************)
(* Python floats (IEEE 754 binary64).  A natural number of any size is the *)
(* sequence of its digits to the base 2^15, lowest first, without leading  *)
(* zeros; the size of a float is [m, e], the value m * 2^e with an m of 53 *)
(* bits (fewer for a subnormal number), and zero is m = <<>>.  The bits of *)
(* a number are counted from 1, the lowest.                                *)
(***************************************************************************)
\* the bits of the significand of a float
MantBits == 53

\* the bits of a digit of a natural number
LimbBits == 15
Base == 2 ^ LimbBits

RECURSIVE Big(_)
\* the natural number n
Big(n) == IF n = 0 THEN <<>> ELSE <<n % Base>> \o Big(n \div Base)

RECURSIVE BigVal(_)
BigVal(a) == IF Len(a) = 0 THEN 0 ELSE a[1] + Base * BigVal(Tail(a))

\* the digits of a from position i on are all 0
TopZero(a, i) == \A j \in i .. Len(a) : a[j] = 0

RECURSIVE ZeroFrom(_, _, _)
\* the least i of lo .. hi from which on the digits of a are all 0, hi being
\* such a position
ZeroFrom(a, lo, hi) ==
    IF lo = hi THEN lo
    ELSE IF TopZero(a, (lo + hi) \div 2) THEN ZeroFrom(a, lo, (lo + hi) \div 2)
    ELSE ZeroFrom(a, (lo + hi) \div 2 + 1, hi)

\* a without its leading zeros
Norm(a) ==
    IF Len(a) = 0 \/ a[Len(a)] # 0 THEN a
    ELSE SubSeq(a, 1, ZeroFrom(a, 1, Len(a)) - 1)

\* the digit of a at position i, 0 past its end
Limb(a, i) == IF i <= Len(a) THEN a[i] ELSE 0

\* a >= b
BigGeq(a, b) ==
    IF Len(a) # Len(b) THEN Len(a) > Len(b)
    ELSE a = b \/ \E i \in 1 .. Len(a) :
                      a[i] > b[i] /\ \A j \in i + 1 .. Len(a) : a[j] = b[j]

\* The sums, differences, products and quotients below go over the digits
\* lo .. hi as over the first half and then the second, the carry c of one
\* half passed to the other: [d, c], d the digits found.
Joined(first, second) == [d |-> first.d \o second.d, c |-> second.c]

RECURSIVE AddRange(_, _, _, _, _)
AddSecond(a, b, from, hi, first) == Joined(first, AddRange(a, b, from, hi, first.c))

\* the digits lo .. hi of a + b, with a carry c into position lo
AddRange(a, b, lo, hi, c) ==
    IF lo = hi
    THEN [d |-> <<(Limb(a, lo) + Limb(b, lo) + c) % Base>>,
          c |-> (Limb(a, lo) + Limb(b, lo) + c) \div Base]
    ELSE AddSecond(a, b, (lo + hi) \div 2 + 1, hi, AddRange(a, b, lo, (lo + hi) \div 2, c))

\* the digits r.d with the carry out of them on top
WithCarry(r) == IF r.c = 0 THEN r.d ELSE Append(r.d, r.c)

BigAdd(a, b) ==
    IF a = <<>> THEN b
    ELSE IF b = <<>> THEN a
    ELSE WithCarry(AddRange(a, b, 1, IF Len(a) > Len(b) THEN Len(a) ELSE Len(b), 0))

RECURSIVE SubRange(_, _, _, _, _)
SubSecond(a, b, from, hi, first) == Joined(first, SubRange(a, b, from, hi, first.c))

\* the digits lo .. hi of a - b, with a borrow c from position lo
SubRange(a, b, lo, hi, c) ==
    IF lo = hi
    THEN [d |-> <<(Base + a[lo] - Limb(b, lo) - c) % Base>>,
          c |-> IF a[lo] - Limb(b, lo) - c < 0 THEN 1 ELSE 0]
    ELSE SubSecond(a, b, (lo + hi) \div 2 + 1, hi, SubRange(a, b, lo, (lo + hi) \div 2, c))

\* a - b for a >= b
BigSub(a, b) ==
    IF b = <<>> THEN a ELSE Norm(SubRange(a, b, 1, Len(a), 0).d)

RECURSIVE ScaleRange(_, _, _, _, _)
ScaleSecond(a, d, from, hi, first) == Joined(first, ScaleRange(a, d, from, hi, first.c))

\* the digits lo .. hi of a * d, with a carry c into position lo, for
\* 0 <= d < 2^15
ScaleRange(a, d, lo, hi, c) ==
    IF lo = hi
    THEN [d |-> <<(a[lo] * d + c) % Base>>, c |-> (a[lo] * d + c) \div Base]
    ELSE ScaleSecond(a, d, (lo + hi) \div 2 + 1, hi, ScaleRange(a, d, lo, (lo + hi) \div 2, c))

\* a * d + c for 0 <= d, c < 2^15
BigScale(a, d, c) ==
    IF a = <<>> THEN (IF c = 0 THEN <<>> ELSE <<c>>)
    ELSE Norm(WithCarry(ScaleRange(a, d, 1, Len(a), c)))

\* a * 2^(15 n)
LimbsUp(a, n) == IF a = <<>> THEN <<>> ELSE [i \in 1 .. n |-> 0] \o a

RECURSIVE MulRange(_, _, _, _)
\* a times the number whose digits are b[lo] .. b[hi]
MulRange(a, b, lo, hi) ==
    IF lo = hi THEN BigScale(a, b[lo], 0)
    ELSE BigAdd(MulRange(a, b, lo, (lo + hi) \div 2),
                LimbsUp(MulRange(a, b, (lo + hi) \div 2 + 1, hi), (lo + hi) \div 2 + 1 - lo))

\* a * b
BigMul(a, b) == IF a = <<>> \/ b = <<>> THEN <<>> ELSE MulRange(a, b, 1, Len(b))

\* one step of the division of a by d, 0 < d < 2^15, from the top digit
\* down: st.i is the position of the digit to divide, st.c the remainder of
\* the digits above it and st.d the digits of the quotient found
QuotStep(a, d, st) ==
    [d |-> <<(st.c * Base + a[st.i]) \div d>> \o st.d,
     c |-> (st.c * Base + a[st.i]) % d,
     i |-> st.i - 1]

RECURSIVE QuotSteps(_, _, _, _)
\* k steps of the division from the state st on, as the first half of the
\* steps and then the rest
QuotSteps(a, d, st, k) ==
    IF st.i = 0 \/ k = 0 THEN st
    ELSE IF k = 1 THEN QuotStep(a, d, st)
    ELSE QuotSteps(a, d, QuotSteps(a, d, st, k \div 2), k - k \div 2)

ShortResult(st) == [r |-> Big(st.c), q |-> Norm(st.d), i |-> 0]

\* divmod(a, d) for 0 < d < 2^15: [q, r]
ShortDivMod(a, d) ==
    ShortResult(QuotSteps(a, d, [d |-> <<>>, c |-> 0, i |-> Len(a)], Len(a)))

\* a \div d for 0 < d < 2^15
BigQuot(a, d) == ShortDivMod(a, d).q

\* the number of bits of a digit x
LimbLen(x) == CHOOSE k \in 0 .. LimbBits : x < 2 ^ k /\ (k = 0 \/ x >= 2 ^ (k - 1))

\* the number of bits of a
BitLen(a) == IF Len(a) = 0 THEN 0 ELSE LimbBits * (Len(a) - 1) + LimbLen(a[Len(a)])

\* the bit of a at position i, 0 past its end and below position 1
BitAt(a, i) ==
    IF i < 1 THEN 0
    ELSE (Limb(a, (i - 1) \div LimbBits + 1) \div 2 ^ ((i - 1) % LimbBits)) % 2

\* a * 2^k
ShiftUp(a, k) ==
    IF a = <<>> THEN <<>>
    ELSE [i \in 1 .. k \div LimbBits |-> 0] \o BigScale(a, 2 ^ (k % LimbBits), 0)

\* a * 2^(-k), truncated
ShiftDown(a, k) ==
    IF k \div LimbBits >= Len(a) THEN <<>>
    ELSE BigQuot(SubSeq(a, k \div LimbBits + 1, Len(a)), 2 ^ (k % LimbBits))

\* the lowest k bits of a are 0
LowZero(a, k) ==
    /\ \A i \in 1 .. k \div LimbBits : Limb(a, i) = 0
    /\ Limb(a, k \div LimbBits + 1) % 2 ^ (k % LimbBits) = 0

\* one step of the long division by b: r2 is the remainder with the next bit
\* of the dividend brought down, q the quotient found so far, i the number of
\* bits still to bring down
BringDown(r2, b, q, i) ==
    IF BigGeq(r2, b) THEN [r |-> BigSub(r2, b), q |-> BigScale(q, 2, 1), i |-> i]
    ELSE [r |-> r2, q |-> BigScale(q, 2, 0), i |-> i]

RECURSIVE DivFrom(_, _, _, _)
\* k steps of the long division of a by b from the state st on, as the first
\* half of the steps and then the rest
DivFrom(a, b, st, k) ==
    IF st.i = 0 \/ k = 0 THEN st
    ELSE IF k = 1 THEN BringDown(BigScale(st.r, 2, BitAt(a, st.i)), b, st.q, st.i - 1)
    ELSE DivFrom(a, b, DivFrom(a, b, st, k \div 2), k - k \div 2)

\* the long division of a by b, b > 0, that starts with the bits of a above
\* the lowest n as the remainder: they are less than b
DivLow(a, b, n) == DivFrom(a, b, [r |-> ShiftDown(a, n), q |-> <<>>, i |-> n], n)

\* divmod(a, b): [q, r]
BigDivMod(a, b) ==
    IF Len(b) = 1 THEN ShortDivMod(a, b[1])
    ELSE IF BitLen(a) < BitLen(b) THEN [r |-> a, q |-> <<>>, i |-> 0]
    ELSE DivLow(a, b, BitLen(a) - BitLen(b) + 1)

\* the exponent of the lowest bit a float can hold, that of the subnormal
\* numbers (-1074), and the power of two no float reaches
MinExp == 0 - 1021 - MantBits
MaxExp == 2 ^ 10

\* m + 1 as a significand: 2^53 is 2^52 with the exponent one up
Carried(m, e) ==
    IF BitLen(m) > MantBits THEN [m |-> ShiftDown(m, 1), e |-> e + 1]
    ELSE [m |-> m, e |-> e]

\* t * 2^(-k) + a fraction has to be rounded up to give the nearest integer,
\* ties to even; sticky says that the fraction is not zero
RoundsUp(t, k, sticky) ==
    /\ BitAt(t, k) = 1
    /\ sticky \/ BitAt(t, k + 1) = 1 \/ ~LowZero(t, k - 1)

\* (q + a fraction) * 2^e rounded to a multiple of 2^(e + k), k > 0
RoundMant(q, sticky, e, k) ==
    IF RoundsUp(q, k, sticky) THEN Carried(BigScale(ShiftDown(q, k), 1, 1), e + k)
    ELSE [m |-> ShiftDown(q, k), e |-> e + k]

\* zero is written with the exponent 0
Zeroed(x) == IF x.m = <<>> THEN [m |-> <<>>, e |-> 0] ELSE x

\* (q + a fraction) * 2^e as a float whose lowest bit is that of 2^(e + k):
\* rounded for k > 0, and q with -k zeros below it for k <= 0, when there is
\* no fraction
RoundAt(q, sticky, e, k) ==
    IF k > 0 THEN Zeroed(RoundMant(q, sticky, e, k))
    ELSE Zeroed([m |-> ShiftUp(q, 0 - k), e |-> e + k])

\* the float nearest to (q + a fraction) * 2^e, the exponent unbounded
\* above; q has more than 53 bits when sticky.  The significand has 53 bits,
\* or fewer when its lowest bit is that of 2^MinExp.
RoundQuot(q, sticky, e) ==
    RoundAt(q, sticky, e,
            IF BitLen(q) - MantBits > MinExp - e THEN BitLen(q) - MantBits ELSE MinExp - e)

\* the float nearest to dm.q + dm.r / b, times 2^e
RoundDiv(dm, e) ==
    IF dm.r = <<>> THEN RoundQuot(dm.q, FALSE, e) ELSE RoundQuot(dm.q, TRUE, e)

\* the float nearest to a / b * 2^e for a, b > 0, the dividend shifted by s
\* bits to give a quotient of more than 53 bits
FloatQuotBy(a, b, e, s) == RoundDiv(BigDivMod(ShiftUp(a, s), b), e - s)

FloatQuot(a, b, e) ==
    IF a = <<>> THEN [m |-> <<>>, e |-> 0]
    ELSE FloatQuotBy(a, b, e, MantBits + 1 + BitLen(b))

\* x / y, y > 0
FloatDiv(x, y) ==
    IF x.m = <<>> THEN [m |-> <<>>, e |-> 0] ELSE FloatQuot(x.m, y.m, x.e - y.e)

\* x * y
FloatMul(x, y) ==
    IF x.m = <<>> \/ y.m = <<>> THEN [m |-> <<>>, e |-> 0]
    ELSE RoundQuot(BigMul(x.m, y.m), FALSE, x.e + y.e)

\* t * 2^e rounded to the nearest integer, ties to even, as a natural number
\* of any size
RoundedBig(t, e) ==
    IF e >= 0 THEN ShiftUp(t, e)
    ELSE IF RoundsUp(t, 0 - e, FALSE) THEN BigScale(ShiftDown(t, 0 - e), 1, 1)
    ELSE ShiftDown(t, 0 - e)

\* the same as an integer
RoundScaled(t, e) == BigVal(RoundedBig(t, e))

RECURSIVE Pow10Big(_)
\* 10^k
Pow10Big(k) ==
    IF k <= 4 THEN Big(10 ^ k)
    ELSE BigMul(Pow10Big(k \div 2), Pow10Big(k - k \div 2))

RECURSIVE BigOfDigits(_)
\* int(s) of a string of decimal digits, of any length
BigOfDigits(s) ==
    IF Len(s) <= 4 THEN Big(DigitsVal(s))
    ELSE BigAdd(BigMul(BigOfDigits(Sub(s, 1, Len(s) \div 2)), Pow10Big(Len(s) - Len(s) \div 2)),
                BigOfDigits(Sub(s, Len(s) \div 2 + 1, Len(s))))

RECURSIVE BigStr(_)
\* str(dm.q) followed by the h digits of dm.r
BigStrOf(dm, h) == BigStr(dm.q) \o ZeroPad(BigStr(dm.r), h)

\* str(a): a number of more than 30 bits as its quotient by a power of ten
\* and the remainder
BigStr(a) ==
    IF BitLen(a) <= 30 THEN NatStr(BigVal(a))
    ELSE BigStrOf(BigDivMod(a, Pow10Big((BitLen(a) * 3) \div 20)), (BitLen(a) * 3) \div 20)

(***************************************************************************)
(* A Python float with its sign: [neg, inf, m, e], the value m * 2^e,      *)
(* negative when neg, or an infinity when inf.  Zero has a sign as well.   *)
(* Not-a-number is the record NaN, an inf with a significand.              *)
(***************************************************************************)
Infinity(neg) == [neg |-> neg, inf |-> TRUE, m |-> <<>>, e |-> 0]

\* float("nan")
NaN == [neg |-> FALSE, inf |-> TRUE, m |-> <<1>>, e |-> 0]

\* math.isnan(x)
IsNaN(x) == x.inf /\ x.m # <<>>

\* x == 0
IsZero(x) == ~x.inf /\ x.m = <<>>

SignedZero(neg) == [neg |-> neg, inf |-> FALSE, m |-> <<>>, e |-> 0]

\* the float of sign neg and of the size x, x rounded with an exponent
\* unbounded above: what reaches 2^MaxExp is an infinity
PyFloat(neg, x) ==
    IF x.m # <<>> /\ x.e + BitLen(x.m) > MaxExp THEN Infinity(neg)
    ELSE [neg |-> neg, inf |-> FALSE, m |-> x.m, e |-> x.e]

\* float(n) of an int
FloatOfInt(n) ==
    IF n = 0 THEN SignedZero(FALSE)
    ELSE PyFloat(n < 0, RoundQuot(Big(Abs(n)), FALSE, 0))

\* float(a) of a natural number of any size, with the sign neg
FloatOfBig(neg, a) ==
    IF a = <<>> THEN SignedZero(FALSE) ELSE PyFloat(neg, RoundQuot(a, FALSE, 0))

\* x == y of two floats: not-a-number equals nothing, and the two zeros
\* are equal
FloatEq(x, y) == ~IsNaN(x) /\ ~IsNaN(y) /\ (x = y \/ (IsZero(x) /\ IsZero(y)))

\* bool(x)
FloatTruthy(x) == x.inf \/ x.m # <<>>

\* x < 0
LessZero(x) == x.neg /\ ~IsNaN(x) /\ ~IsZero(x)

\* -x and abs(x)
NegFloat(x) == IF IsNaN(x) THEN NaN ELSE [x EXCEPT !.neg = ~@]
AbsFloat(x) == IF IsNaN(x) THEN NaN ELSE [x EXCEPT !.neg = FALSE]

\* x * y: the product of an infinity and a zero is not-a-number
MulFloat(x, y) ==
    IF IsNaN(x) \/ IsNaN(y) THEN NaN
    ELSE IF x.inf \/ y.inf
    THEN (IF IsZero(x) \/ IsZero(y) THEN NaN ELSE Infinity(x.neg # y.neg))
    ELSE PyFloat(x.neg # y.neg, FloatMul(x, y))

\* x / y for a y that is not zero
DivFloat(x, y) ==
    IF IsNaN(x) \/ IsNaN(y) THEN NaN
    ELSE IF x.inf THEN (IF y.inf THEN NaN ELSE Infinity(x.neg # y.neg))
    ELSE IF y.inf THEN SignedZero(x.neg # y.neg)
    ELSE PyFloat(x.neg # y.neg, FloatDiv(x, y))

\* the sum of two finite floats that are not zero, of the signs xneg and
\* yneg and the sizes a * 2^e and b * 2^e: the exact sum, rounded; a sum of
\* zero is +0.0
SumAligned(xneg, a, yneg, b, e) ==
    IF xneg = yneg THEN PyFloat(xneg, RoundQuot(BigAdd(a, b), FALSE, e))
    ELSE IF a = b THEN SignedZero(FALSE)
    ELSE IF BigGeq(a, b) THEN PyFloat(xneg, RoundQuot(BigSub(a, b), FALSE, e))
    ELSE PyFloat(yneg, RoundQuot(BigSub(b, a), FALSE, e))

SumFinite(x, y, e) ==
    SumAligned(x.neg, ShiftUp(x.m, x.e - e), y.neg, ShiftUp(y.m, y.e - e), e)

\* x + y: the sum of the two infinities is not-a-number, and -0.0 is the
\* sum of -0.0 and -0.0 alone
AddFloat(x, y) ==
    IF IsNaN(x) \/ IsNaN(y) THEN NaN
    ELSE IF x.inf THEN (IF y.inf /\ x.neg # y.neg THEN NaN ELSE x)
    ELSE IF y.inf THEN y
    ELSE IF x.m = <<>> THEN (IF y.m = <<>> THEN SignedZero(x.neg /\ y.neg) ELSE y)
    ELSE IF y.m = <<>> THEN x
    ELSE SumFinite(x, y, IF x.e < y.e THEN x.e ELSE y.e)

\* x - y
SubFloat(x, y) == AddFloat(x, NegFloat(y))

\* int(x) of a finite x that is not negative, as a natural number of any size
TruncFloat(x) == IF x.e >= 0 THEN ShiftUp(x.m, x.e) ELSE ShiftDown(x.m, 0 - x.e)

\* x is a whole number: x % 1 == 0
IsWhole(x) == ~x.inf /\ (x.m = <<>> \/ x.e >= 0 \/ LowZero(x.m, 0 - x.e))

\* sig * 10^x as a float, sig a string of digits that starts with no zero
DecimalSize(sig, x) ==
    IF x >= 0 THEN RoundQuot(BigMul(BigOfDigits(sig), Pow10Big(x)), FALSE, 0)
    ELSE FloatQuot(BigOfDigits(sig), Pow10Big(0 - x), 0)

\* float() of the decimal number of the digits sig times 10^x, sig as
\* above: the floats are below 10^309, and a number below 10^-324 is nearer
\* to zero than to the least of them
DecimalOf(neg, sig, x) ==
    IF sig = "" THEN SignedZero(neg)
    ELSE IF x + Len(sig) - 1 >= 309 THEN Infinity(neg)
    ELSE IF x + Len(sig) <= -324 THEN SignedZero(neg)
    ELSE PyFloat(neg, DecimalSize(sig, x))

\* float() of the decimal number of the digits times 10^x
DecimalFloat(neg, digits, x) == DecimalOf(neg, SigDigits(digits), x)

\* the digits of q = |value| * 10^decs with the sign and the decimal point
FormatDigits(neg, dm, decs) ==
    (IF neg THEN "-" ELSE "")
    \o (IF decs = 0 THEN BigStr(dm.q)
        ELSE BigStr(dm.q) \o "." \o ZeroPad(BigStr(dm.r), decs))

\* "{:.<decs>f}".format(x): the exact value of the float rounded to decs
\* decimals, ties to even
FormatFloat(x, decs) ==
    IF IsNaN(x) THEN "nan"
    ELSE IF x.inf THEN (IF x.neg THEN "-inf" ELSE "inf")
    ELSE FormatDigits(x.neg, BigDivMod(RoundedBig(BigMul(x.m, Big(10 ^ decs)), x.e),
                                       Big(10 ^ decs)), decs)

(***************************************************************************)
(* utils/naviter/helpers.py: distances                                     *)
(***************************************************************************)
\* utils/constants.py: FT_2_M = 0.3048, NM_2_M = 1852, ML_2_M = 1609.344
FT_2_M == DecimalFloat(FALSE, "3048", -4)
NM_2_M == FloatOfInt(1852)
ML_2_M == DecimalFloat(FALSE, "1609344", -3)

\* float("-inf"), the value convert_distance_to_m_and_og_unit gives ""
NegInf == Infinity(TRUE)

\* float(value) of the number CUP_DISTANCE_REGEX matched
FloatOfMatch(num) == DecimalFloat(num.neg, num.digits, num.exp - num.decs)

\* the groups of a match of CUP_DISTANCE_REGEX on s, converted: [ok, v, unit]
DistanceGroups(s, num, unit) ==
    LET unit_conversion == [u \in {"ft", "nm", "ml", "m"} |->
                               IF u = "ft" THEN FT_2_M
                               ELSE IF u = "nm" THEN NM_2_M
                               ELSE IF u = "ml" THEN ML_2_M
                               ELSE FloatOfInt(1)]
    IN IF unit = "" THEN [ok |-> FALSE, v |-> SignedZero(FALSE), unit |-> ""]
       ELSE [ok   |-> TRUE,
             v    |-> MulFloat(FloatOfMatch(num), unit_conversion[unit]),
             unit |-> unit]

DistanceNumber(s, num) ==
    DistanceGroups(s, num, IF num.ok THEN MatchUnit(s, num.end + 1) ELSE "")

\* CUP_DISTANCE_REGEX.match(dist.strip().lower())
DistanceMatch(s) == DistanceNumber(s, MatchNumber(s))

\* convert_distance_to_m_and_og_unit: [ok, v, unit]; ok = FALSE is ValueError
convert_distance_to_m_and_og_unit(dist) ==
    IF Strip(dist) = "" THEN [ok |-> TRUE, v |-> NegInf, unit |-> "m"]
    ELSE DistanceMatch(Plain(Lower(Strip(dist))))

\* "{:.1f}m" or, when (distance * 10) % 1 == 0, "{:.0f}m"
FormatMetres(distance) ==
    IF IsWhole(MulFloat(distance, FloatOfInt(10))) THEN FormatFloat(distance, 0) \o "m"
    ELSE FormatFloat(distance, 1) \o "m"

\* format_distance(dist_in_m, unit); dist_in_m is None or a float.  A unit
\* that is none of the four is written as metres with one decimal, and
\* dist_in_m / 1.0 is dist_in_m.
format_distance(dist_in_m, unit) ==
    LET u == Plain(Lower(unit))
        d == Get(dist_in_m)
    IN IF IsNone(dist_in_m) \/ d = NegInf THEN ""
       ELSE IF u = "ft" THEN FormatFloat(DivFloat(d, FT_2_M), 0) \o "ft"
       ELSE IF u = "nm" THEN FormatFloat(DivFloat(d, NM_2_M), 2) \o "nm"
       ELSE IF u = "ml" THEN FormatFloat(DivFloat(d, ML_2_M), 2) \o "ml"
       ELSE IF u = "m" THEN FormatMetres(d)
       ELSE FormatFloat(d, 1) \o "m"

\* ^(118|119|12[0-9]|13[0-6])\.(?:\d{2}[05]|\d{2}|\d) over the whole of freq
FreqDigits(freq) ==
    /\ Len(freq) >= 5
    /\ Sub(freq, 1, 3) \in {"118", "119", "120", "121", "122", "123",
           "124", "125", "126", "127", "128", "129", "130", "131",
           "132", "133", "134", "135", "136"}
    /\ Ch(freq, 4) = "."
    /\ \/ Len(freq) = 5 /\ IsDigit(Ch(freq, 5))
       \/ Len(freq) = 6 /\ AllDigits(Sub(freq, 5, 6))
       \/ /\ Len(freq) = 7 /\ AllDigits(Sub(freq, 5, 6))
          /\ Ch(freq, 7) \in {"0", "5"}

\* the first alternative of CUP_FREQ_REGEX:
\* ^(118|119|12[0-9]|13[0-6])\.(?:\d{2}[05]|\d{2}|\d)$
\* "$" is the end of the string or the place before a "\n" that ends it
FreqBand(freq) ==
    \/ FreqDigits(freq)
    \/ Ch(freq, Len(freq)) = "\n" /\ FreqDigits(Sub(freq, 1, Len(freq) - 1))

\* is_valid_cup_freq: CUP_FREQ_REGEX ends in an empty alternative ("...$|"),
\* which matches at the start of every string
is_valid_cup_freq(freq) == FreqBand(freq) \/ TRUE

\* CUP_SYTLE_MAPPING.keys()
CUP_SYTLE_KEYS == 0 .. 21

(***************************************************************************)
(* Python values handed to a setter: a str, an int, a float, None, or      *)
(* something else (a list, a dict).  A float is a coordinate in the fixed  *)
(* point of the coordinates (n) or a distance in metres (f).               *)
(***************************************************************************)
NoFloat   == SignedZero(FALSE)
StrV(x)   == [t |-> "str",   s |-> x,  n |-> 0, f |-> NoFloat]
IntV(x)   == [t |-> "int",   s |-> "", n |-> x, f |-> NoFloat]
FloatV(x) == [t |-> "float", s |-> "", n |-> x, f |-> NoFloat]
DistV(x)  == [t |-> "float", s |-> "", n |-> 0, f |-> x]
NoneV     == [t |-> "none",  s |-> "", n |-> 0, f |-> NoFloat]
\* a list or a dict, n its length
OtherV    == [t |-> "other", s |-> "", n |-> 1, f |-> NoFloat]
EmptyV    == [t |-> "other", s |-> "", n |-> 0, f |-> NoFloat]

\* Python truthiness: "not value" is ~Truthy(value)
Truthy(v) ==
    IF v.t = "str" THEN v.s # ""
    ELSE IF v.t = "int" THEN v.n # 0
    ELSE IF v.t = "float" THEN v.n # 0 \/ FloatTruthy(v.f)
    ELSE IF v.t = "other" THEN v.n # 0
    ELSE FALSE

IsNum(v) == v.t = "int" \/ v.t = "float"

\* an Optional field of a record, as the value a caller passes on
OptStrV(o) == IF IsNone(o) THEN NoneV ELSE StrV(Get(o))
OptIntV(o) == IF IsNone(o) THEN NoneV ELSE IntV(Get(o))
OptNumV(o) == IF IsNone(o) THEN NoneV ELSE DistV(Get(o))

\* the digits of an int literal: groups of digits with single underscores
\* between them
IsIntBody(body) ==
    /\ Len(body) > 0
    /\ \A i \in 1 .. Len(body) : IsDigit(Ch(body, i)) \/ Ch(body, i) = "_"
    /\ \A i \in 1 .. Len(body) :
          Ch(body, i) = "_" => IsDigit(Ch(body, i - 1)) /\ IsDigit(Ch(body, i + 1))

RECURSIVE WithoutCh(_, _)
\* s without the character c
WithoutCh(s, c) ==
    IF Len(s) = 0 THEN ""
    ELSE (IF Ch(s, 1) = c THEN "" ELSE Ch(s, 1)) \o WithoutCh(Sub(s, 2, Len(s)), c)

\* int(c) for a stripped str
PyIntStripped(c) ==
    LET sign == SignLen(c, 1)
        body == Sub(c, sign + 1, Len(c))
    IN IF IsIntBody(body)
       THEN [ok |-> TRUE,
             v  |-> (IF Ch(c, 1) = "-" THEN -1 ELSE 1) * DigitsVal(WithoutCh(body, "_"))]
       ELSE [ok |-> FALSE, v |-> 0]

\* int(s) for a str: [ok, v]; ok = FALSE is ValueError
PyInt(s) == PyIntStripped(StripSet(s, NumberSpace))

\* the str branch of is_valid_style, i the outcome of int(style)
StyleOfInt(i) == [ok |-> i.ok, v |-> i.ok /\ i.v \in CUP_SYTLE_KEYS]

\* is_valid_style(style): [ok, v]; ok = FALSE is the ValueError of int(style)
\* for a str that isdigit() accepts and int() does not
is_valid_style(v) ==
    IF v.t = "int" /\ v.n \in CUP_SYTLE_KEYS THEN [ok |-> TRUE, v |-> TRUE]
    ELSE IF v.t = "str" /\ IsDigitStr(v.s) THEN StyleOfInt(PyInt(v.s))
    ELSE [ok |-> TRUE, v |-> FALSE]

(***************************************************************************)
(* utils/naviter/waypoint.py: CupWaypoint                                  *)
(***************************************************************************)
\* the two-letter codes Countries.get_by_iso2 finds
ISO2 == {"AT", "SI", "DE"}

\* Point(lon, lat)
Point(x, y) == [x |-> x, y |-> y]

\* an object whose attributes are not assigned yet
BlankWaypoint(id) ==
    [id |-> id, name |-> None, code |-> None, country |-> None,
     lat |-> 0, lon |-> 0, coordinates |-> Point(0, 0),
     elev |-> None, og_elev_unit |-> "m", style |-> None, rwdir |-> None,
     rwlen |-> None, og_rwlen_unit |-> "m", rwwidth |-> None, og_rwwidth_unit |-> "m",
     freq |-> None, desc |-> None, userdata |-> None, pics |-> None]

Ok(w)     == [w |-> w, raised |-> FALSE]
Raised(w) == [w |-> w, raised |-> TRUE]

\* "convert_lat_lon_to_dd(x) if isinstance(x, str) else x": [ok, v]; an int
\* is a number of degrees
ToDd(x) ==
    IF x.t = "str" THEN convert_lat_lon_to_dd(x.s)
    ELSE IF x.t = "int" THEN [ok |-> TRUE, v |-> x.n * DegUnit]
    ELSE [ok |-> TRUE, v |-> x.n]

\* the range checks of _update_coordinates, on the object whose _lat and _lon
\* are already assigned
CheckRanges(w) ==
    IF ~(-90 * DegUnit <= w.lat /\ w.lat <= 90 * DegUnit) THEN Raised(w)
    ELSE IF ~(-180 * DegUnit <= w.lon /\ w.lon <= 180 * DegUnit) THEN Raised(w)
    ELSE Ok([w EXCEPT !.coordinates = Point(w.lon, w.lat)])

\* the two assignments of _update_coordinates, each after its conversion
AssignLatLon(w, clat, clon) ==
    IF ~clat.ok THEN Raised(w)
    ELSE IF ~clon.ok THEN Raised([w EXCEPT !.lat = clat.v])
    ELSE CheckRanges([w EXCEPT !.lat = clat.v, !.lon = clon.v])

\* CupWaypoint._update_coordinates(lat, lon): the fields are assigned before
\* the range checks
_update_coordinates(w, lat, lon) ==
    IF (lat.t = "str" \/ IsNum(lat)) /\ (lon.t = "str" \/ IsNum(lon))
    THEN AssignLatLon(w, ToDd(lat), ToDd(lon))
    ELSE Raised(w)

OgUnitAttr(attr_name) ==
    IF attr_name = "elev" THEN "og_elev_unit"
    ELSE IF attr_name = "rwlen" THEN "og_rwlen_unit"
    ELSE "og_rwwidth_unit"

\* the str branch of _set_distance_attr, c the conversion of the value
SetConverted(w, attr_name, c) ==
    IF c.ok THEN Ok([w EXCEPT ![attr_name] = Some(c.v), ![OgUnitAttr(attr_name)] = c.unit])
    ELSE Raised(w)

\* an int or a float kept as a distance: the int as the float equal to it
NumberOf(value) == IF value.t = "int" THEN FloatOfInt(value.n) ELSE value.f

\* CupWaypoint._set_distance_attr
_set_distance_attr(w, value, attr_name) ==
    IF ~Truthy(value)
    THEN Ok([w EXCEPT ![attr_name] = None, ![OgUnitAttr(attr_name)] = "m"])
    ELSE IF value.t = "str"
    THEN SetConverted(w, attr_name, convert_distance_to_m_and_og_unit(value.s))
    ELSE IF IsNum(value)
    THEN Ok([w EXCEPT ![attr_name] = Some(NumberOf(value)), ![OgUnitAttr(attr_name)] = "m"])
    ELSE Raised(w)

\* CupWaypoint._set_string_attr; valid is vali_fn is None or vali_fn(value)
_set_string_attr(w, value, attr_name, valid) ==
    IF ~Truthy(value) THEN Ok([w EXCEPT ![attr_name] = None])
    ELSE IF value.t = "str"
    THEN IF valid THEN Ok([w EXCEPT ![attr_name] = Some(Strip(value.s))])
         ELSE Raised(w)
    ELSE Raised(w)

\* "setattr(self, storage_attr, int(value))", i the outcome of int(value)
SetInt(w, attr_name, i) ==
    IF i.ok THEN Ok([w EXCEPT ![attr_name] = Some(i.v)]) ELSE Raised(w)

\* CupWaypoint._set_integer_attr; int(value) of a str can raise as well
_set_integer_attr(w, value, attr_name, valid) ==
    IF ~Truthy(value) THEN Ok([w EXCEPT ![attr_name] = None])
    ELSE IF value.t = "int" \/ value.t = "str"
    THEN IF valid
         THEN SetInt(w, attr_name,
                     IF value.t = "str" THEN PyInt(value.s) ELSE [ok |-> TRUE, v |-> value.n])
         ELSE Raised(w)
    ELSE Raised(w)

\* the style setter: _set_integer_attr calls vali_fn = is_valid_style for a
\* truthy int or str, and its exception leaves the setter
SetStyle(w, value, valid) ==
    IF Truthy(value) /\ (value.t = "int" \/ value.t = "str") /\ ~valid.ok THEN Raised(w)
    ELSE _set_integer_attr(w, value, "style", valid.v)

\* the country setter
SetCountry(w, value) ==
    IF ~Truthy(value) THEN Ok([w EXCEPT !.country = None])
    ELSE IF value.t = "str" /\ Len(value.s) = 2
    THEN IF value.s = "--" THEN Ok([w EXCEPT !.country = None])
         ELSE IF Plain(Upper(value.s)) \in ISO2
         THEN _set_string_attr(w, StrV(Plain(Upper(value.s))), "country", TRUE)
         ELSE Raised(w)
    ELSE Raised(w)

\* setattr(w, attr, value) through the property setters
SetAttr(w, attr, value) ==
    IF attr = "lat" THEN _update_coordinates(w, value, FloatV(w.lon))
    ELSE IF attr = "lon" THEN _update_coordinates(w, FloatV(w.lat), value)
    ELSE IF attr = "country" THEN SetCountry(w, value)
    ELSE IF attr \in {"elev", "rwlen", "rwwidth"} THEN _set_distance_attr(w, value, attr)
    ELSE IF attr = "style" THEN SetStyle(w, value, is_valid_style(value))
    ELSE IF attr = "rwdir" THEN _set_integer_attr(w, value, attr, TRUE)
    ELSE IF attr = "freq"
    THEN _set_string_attr(w, value, attr, value.t = "str" /\ is_valid_cup_freq(value.s))
    ELSE _set_string_attr(w, value, attr, TRUE)

\* the order in which __init__ assigns the attributes after the coordinates
InitOrder == <<"name", "code", "country", "elev", "style", "rwdir", "rwlen",
               "rwwidth", "freq", "desc", "userdata", "pics">>

RECURSIVE InitAttrs(_, _, _)
\* the assignments of __init__ from the i-th on; r is the outcome so far
InitAttrs(r, kw, i) ==
    IF r.raised \/ i > Len(InitOrder) THEN r
    ELSE InitAttrs(SetAttr(r.w, InitOrder[i], kw[InitOrder[i]]), kw, i + 1)

\* keyword arguments with the defaults of __init__
Kwargs(name, lat, lon) ==
    [f \in {"name", "lat", "lon", "code", "country", "elev", "style", "rwdir",
            "rwlen", "rwwidth", "freq", "userdata", "desc", "pics"} |->
        IF f = "name" THEN name ELSE IF f = "lat" THEN lat ELSE IF f = "lon" THEN lon
        ELSE NoneV]

\* CupWaypoint.__init__(**kw) with _id = id: [w, raised]
NewCupWaypoint(id, kw) ==
    IF ~Truthy(kw.name) THEN Raised(BlankWaypoint(id))
    ELSE IF ~Truthy(kw.lat) \/ ~Truthy(kw.lon) THEN Raised(BlankWaypoint(id))
    ELSE InitAttrs(_update_coordinates(BlankWaypoint(id), kw.lat, kw.lon), kw, 1)

\* is_landable / is_airport / is_outlanding
is_landable(w)   == ~IsNone(w.style) /\ Get(w.style) \in {2, 3, 4, 5}
is_airport(w)    == ~IsNone(w.style) /\ Get(w.style) \in {2, 4, 5}
is_outlanding(w) == ~IsNone(w.style) /\ Get(w.style) \in {3}

\* CUP_FIELDS
CUP_FIELDS == <<"name", "code", "country", "lat", "lon", "elev", "style", "rwdir",
                "rwlen", "rwwidth", "freq", "desc", "userdata", "pics">>

\* CupWaypoint._format_attr
_format_attr(w, attr) ==
    IF attr = "lat" THEN format_decimal_degrees_to_cup(w.lat, TRUE)
    ELSE IF attr = "lon" THEN format_decimal_degrees_to_cup(w.lon, FALSE)
    ELSE IF attr \in {"elev", "rwlen", "rwwidth"}
    THEN format_distance(w[attr], w[OgUnitAttr(attr)])
    ELSE IF IsNone(w[attr]) THEN ""
    ELSE IF attr \in {"style", "rwdir"} THEN IntStr(Get(w[attr]))
    ELSE Get(w[attr])

RECURSIVE DoubleQuotes(_)
\* every quote character doubled
DoubleQuotes(s) ==
    IF Len(s) = 0 THEN ""
    ELSE IF Len(s) = 1 THEN (IF s = "\"" THEN "\"\"" ELSE s)
    ELSE DoubleQuotes(Sub(s, 1, Len(s) \div 2))
         \o DoubleQuotes(Sub(s, Len(s) \div 2 + 1, Len(s)))

\* one field as csv.DictWriter writes it with quoting=csv.QUOTE_MINIMAL: a
\* field with the delimiter, the quote character or a character of the line
\* terminator "\r\n" is quoted
CsvField(s) ==
    IF \/ IndexIn(",", s, 1) > 0 \/ IndexIn("\"", s, 1) > 0
       \/ IndexIn("\n", s, 1) > 0 \/ IndexIn("\r", s, 1) > 0
    THEN "\"" \o DoubleQuotes(s) \o "\""
    ELSE s

RECURSIVE Join(_, _)
\* sep.join(seq)
Join(seq, sep) ==
    IF Len(seq) = 0 THEN ""
    ELSE IF Len(seq) = 1 THEN seq[1]
    ELSE seq[1] \o sep \o Join(Tail(seq), sep)

\* CupWaypoint.__str__: one CSV row in the order of CUP_FIELDS
WaypointStr(w) ==
    Join([i \in 1 .. Len(CUP_FIELDS) |-> CsvField(_format_attr(w, CUP_FIELDS[i]))], ",")

(***************************************************************************)
(* utils/naviter/cup.py: CupFile                                           *)
(***************************************************************************)
\* the line boundaries of str.splitlines(): \n, \r, U+000B, \f, U+001C ..
\* U+001E, U+0085 (U+2028 and U+2029 cannot be written in a string of this
\* module); "\r\n" is one boundary
LineEnds == "\n\r\f"

\* the characters str.splitlines() cuts at
LineEndSet == CharsOf(LineEnds)

\* a line ends at position i of s: a line-end character, but for the "\n"
\* of a "\r\n"
EndsLineAt(s, i) ==
    Ch(s, i) \in LineEndSet /\ ~(Ch(s, i) = "\n" /\ Ch(s, i - 1) = "\r")

RECURSIVE LineEndsIn(_, _, _)
\* the positions lo .. hi of s at which a line ends, in order
LineEndsIn(s, lo, hi) ==
    IF lo > hi THEN <<>>
    ELSE IF lo = hi THEN (IF EndsLineAt(s, lo) THEN <<lo>> ELSE <<>>)
    ELSE LineEndsIn(s, lo, (lo + hi) \div 2) \o LineEndsIn(s, (lo + hi) \div 2 + 1, hi)

\* where the line after the line end at position e starts
AfterEnd(s, e) == e + (IF Sub(s, e, e + 1) = "\r\n" THEN 2 ELSE 1)

\* the text after the last line end, a line when it is not empty
LastLine(s, from) == IF from > Len(s) THEN <<>> ELSE <<Sub(s, from, Len(s))>>

\* the lines of s, ends the positions of its line ends
LinesAt(s, ends) ==
    [k \in 1 .. Len(ends) |->
        Sub(s, IF k = 1 THEN 1 ELSE AfterEnd(s, ends[k - 1]), ends[k] - 1)]
    \o LastLine(s, IF Len(ends) = 0 THEN 1 ELSE AfterEnd(s, ends[Len(ends)]))

\* str.splitlines()
SplitLines(s) == LinesAt(s, LineEndsIn(s, 1, Len(s)))

RECURSIVE CsvLine(_, _, _)
\* an unquoted field from ci on, e the position of the next delimiter
CsvInField(line, ci, p, e) ==
    IF e = 0 THEN [p EXCEPT !.field = @ \o Sub(line, ci, Len(line))]
    ELSE CsvLine(line, e + 1,
                 [st |-> "start_field", field |-> "",
                  row |-> Append(p.row, p.field \o Sub(line, ci, e - 1))])

\* a quoted field from ci on, q the position of the next quote
CsvInQuoted(line, ci, p, q) ==
    IF q = 0 THEN [p EXCEPT !.field = @ \o Sub(line, ci, Len(line))]
    ELSE CsvLine(line, q + 1,
                 [p EXCEPT !.st = "quote_in_quoted", !.field = @ \o Sub(line, ci, q - 1)])

\* the state machine of csv.reader(delimiter=",", quotechar='"') over one
\* line from position ci on, taken a field (or a quote) at a time;
\* p = [st, field, row] is the parser state, the result is the state at the
\* end of the line
CsvLine(line, ci, p) ==
    IF ci > Len(line) THEN p
    ELSE IF p.st = "start_record" \/ p.st = "start_field"
    THEN IF Ch(line, ci) = "\""
         THEN CsvLine(line, ci + 1, [p EXCEPT !.st = "in_quoted", !.field = ""])
         ELSE CsvLine(line, ci, [p EXCEPT !.st = "in_field", !.field = ""])
    ELSE IF p.st = "in_field"
    THEN \* up to the next delimiter; quotes are ordinary characters here
         CsvInField(line, ci, p, IndexIn(",", line, ci))
    ELSE IF p.st = "in_quoted"
    THEN \* up to the next quote
         CsvInQuoted(line, ci, p, IndexIn("\"", line, ci))
    ELSE \* quote_in_quoted: a doubled quote, the end of the field, or, not
         \* being strict, any other character, which goes on unquoted
         IF Ch(line, ci) = "\""
         THEN CsvLine(line, ci + 1, [p EXCEPT !.st = "in_quoted", !.field = @ \o "\""])
         ELSE IF Ch(line, ci) = ","
         THEN CsvLine(line, ci + 1,
                      [st |-> "start_field", field |-> "", row |-> Append(p.row, p.field)])
         ELSE CsvLine(line, ci, [p EXCEPT !.st = "in_field"])

CsvStart == [st |-> "start_record", field |-> "", row |-> <<>>]

\* the reader after one more line, e the parser state at the end of that
\* line: an empty line is an empty row, a quoted field left open at the end
\* of a line continues on the next line; st = [p, rows, i] is the parser
\* state, the rows read and the number of lines taken
CsvEndOfLine(st, e) ==
    IF e.st = "start_record"
    THEN [p |-> CsvStart, rows |-> Append(st.rows, <<>>), i |-> st.i + 1]
    ELSE IF e.st = "in_quoted" THEN [p |-> e, rows |-> st.rows, i |-> st.i + 1]
    ELSE [p |-> CsvStart, rows |-> Append(st.rows, Append(e.row, e.field)), i |-> st.i + 1]

RECURSIVE CsvScan(_, _, _, _)
\* csv.reader over the lines lo .. hi, without their line ends, from the
\* state st the lines before lo left
CsvScan(lines, st, lo, hi) ==
    IF st.i >= hi THEN st
    ELSE IF lo = hi THEN CsvEndOfLine(st, CsvLine(lines[lo], 1, st.p))
    ELSE CsvScan(lines, CsvScan(lines, st, lo, (lo + hi) \div 2), (lo + hi) \div 2 + 1, hi)

\* the end of the input closes an open record
CsvClose(st) ==
    IF st.p.st = "start_record" THEN st.rows ELSE Append(st.rows, Append(st.p.row, st.p.field))

\* list(csv.reader(lines))
CsvRows(lines) ==
    CsvClose(CsvScan(lines, [p |-> CsvStart, rows |-> <<>>, i |-> 0], 1, Len(lines)))

\* CUP_FIELDS_MAPPING: the canonical field of a normalized column name, "" if none
FieldOfColumn(n) ==
    IF n \in {"name", "waypoint", "wpname"} THEN "name"
    ELSE IF n \in {"code", "shortname", "short_name"} THEN "code"
    ELSE IF n \in {"country", "cntry"} THEN "country"
    ELSE IF n \in {"lat", "la", "latitude"} THEN "lat"
    ELSE IF n \in {"lon", "lo", "long", "longitude"} THEN "lon"
    ELSE IF n \in {"elev", "elevation", "alt", "altitude"} THEN "elev"
    ELSE IF n \in {"style", "type"} THEN "style"
    ELSE IF n \in {"rwdir", "rw_dir", "rwy_dir", "runway_direction"} THEN "rwdir"
    ELSE IF n \in {"rwlen", "rw_len", "rwy_len", "runway_length"} THEN "rwlen"
    ELSE IF n \in {"rwwidth", "rw_width", "rwy_width", "runway_width"} THEN "rwwidth"
    ELSE IF n \in {"freq", "frequency"} THEN "freq"
    ELSE IF n \in {"desc", "description"} THEN "desc"
    ELSE IF n \in {"userdata", "user_data"} THEN "userdata"
    ELSE IF n \in {"pics", "pictures", "user_pictures"} THEN "pics"
    ELSE ""

FieldSet == {CUP_FIELDS[i] : i \in 1 .. Len(CUP_FIELDS)}

MaxOrZero(S) == IF S = {} THEN 0 ELSE SetMax(S)

\* field -> the last column whose canonical field it is, 0 when there is none
ColumnsOf(column_fields) ==
    [f \in FieldSet |->
        MaxOrZero({i \in 1 .. Len(column_fields) : column_fields[i] = f})]

\* CupFile._find_column_indices: field -> 1-based column, 0 when the header
\* has no column for the field; a later column of the same field wins
_find_column_indices(header_line) ==
    ColumnsOf([i \in 1 .. Len(header_line) |->
                  FieldOfColumn(Plain(Lower(Strip(header_line[i]))))])

\* CupFile._parse_waypoint_line: [w, raised]; raises when the line is shorter
\* than a mapped column (IndexError), when name, lat or lon have no column
\* (TypeError) and when the constructor raises
_parse_waypoint_line(line, column_indices, id) ==
    LET mapped == {f \in FieldSet : column_indices[f] > 0}
        waypoint_data == [f \in FieldSet |->
            IF f \in mapped /\ column_indices[f] <= Len(line)
            THEN StrV(Strip(StripSet(line[column_indices[f]], "\"")))
            ELSE NoneV]
    IN IF \E f \in mapped : column_indices[f] > Len(line) THEN Raised(BlankWaypoint(id))
       ELSE IF ~({"name", "lat", "lon"} \subseteq mapped) THEN Raised(BlankWaypoint(id))
       ELSE NewCupWaypoint(id, waypoint_data)

\* CupFile(file_name)
NewCupFile(file_name) == [file_name |-> file_name, waypoints |-> <<>>, tasks |-> <<>>]

\* CupFile._add_wpt_if_unique once the waypoint is built (r): the line is
\* noted and the waypoint is appended to the file
_add_wpt_if_unique(st, line_str, r) ==
    IF r.raised THEN [st EXCEPT !.raised = TRUE]
    ELSE [st EXCEPT !.cf.waypoints = Append(@, r.w),
                    !.unique_wpt_ids = @ \cup {line_str},
                    !.nextId = @ + 1]

\* the body of the loop of CupFile.loads for row k + 1 (line_nr = k - 1),
\* line_str its text; st = [cf, raised, nextId, unique_wpt_ids, done] is the
\* state of the loop, done after the break at the task marker
LoadRow(st, lines, rows, k, column_indices, line_str) ==
    IF Contains(Plain(Lower(line_str)), "--related tasks--")
    THEN [st EXCEPT !.cf.tasks = SubSeq(lines, k + 2, Len(lines)), !.done = TRUE]
    ELSE IF Len(rows[k + 1]) > 0 /\ ~StartsWith(rows[k + 1][1], "#")
            /\ line_str \notin st.unique_wpt_ids
    THEN _add_wpt_if_unique(st, line_str,
                            _parse_waypoint_line(rows[k + 1], column_indices, st.nextId))
    ELSE st

RECURSIVE LoadRows(_, _, _, _, _, _)
\* the loop of CupFile.loads over the rows lo + 1 .. hi + 1, from the state
\* st the rows before left.  Waypoints are appended to the file as they are
\* built; a raise and the break end the loop.
LoadRows(st, lines, rows, column_indices, lo, hi) ==
    IF st.raised \/ st.done \/ lo > hi THEN st
    ELSE IF lo = hi THEN LoadRow(st, lines, rows, lo, column_indices, Join(rows[lo + 1], ","))
    ELSE LoadRows(LoadRows(st, lines, rows, column_indices, lo, (lo + hi) \div 2),
                  lines, rows, column_indices, (lo + hi) \div 2 + 1, hi)

\* the state of the loop before the first row: "unique_wpt_ids = set()"
LoadStart(cf, nextId) ==
    [cf |-> cf, raised |-> FALSE, nextId |-> nextId, unique_wpt_ids |-> {}, done |-> FALSE]

\* what a call of loads leaves: the file, whether it raised, the next _id
LoadEnd(st) == [cf |-> st.cf, raised |-> st.raised, nextId |-> st.nextId]

\* a variant of LoadReader that treats a missing header line as an error
LoadReader_EmptyRaises(cf, lines, rows, nextId) ==
    IF Len(rows) = 0 THEN [cf |-> cf, raised |-> TRUE, nextId |-> nextId]
    ELSE LoadEnd(LoadRows(LoadStart(cf, nextId), lines, rows, _find_column_indices(rows[1]),
                          1, Len(rows) - 1))

\* CupFile.loads after "reader = csv.reader(lines, ...)": without a header
\* line a warning is logged and self is returned
LoadReader(cf, lines, rows, nextId) ==
    IF Len(rows) = 0 THEN [cf |-> cf, raised |-> FALSE, nextId |-> nextId]
    ELSE LoadEnd(LoadRows(LoadStart(cf, nextId), lines, rows, _find_column_indices(rows[1]),
                          1, Len(rows) - 1))

\* CupFile.loads after "lines = content.splitlines()"
LoadLines(cf, lines, nextId) == LoadReader(cf, lines, CsvRows(lines), nextId)

\* CupFile.loads after "content = ...": [cf, raised, nextId]; with
\* raised = FALSE the method returns self
LoadContent(cf, content, nextId) == LoadLines(cf, SplitLines(content), nextId)

\* What load and loads are handed: a str, a bytes object, an object of
\* another type, or (load) the path of a file.  payload is the text of a str
\* and the bytes of a bytes object or of the file, written with the
\* characters of the same codes.  The answer of the library function
\* charset_normalizer.from_bytes for the bytes comes with them as matches, a
\* list of [encoding, chaos0, text] in the order of the library, the best
\* first: chaos0 is "result.chaos == 0", text is str(result).
Str(text) ==
    [kind |-> "str", payload |-> text, matches |-> <<>>, path |-> "", readable |-> TRUE]
Bytes(payload, matches) ==
    [kind |-> "bytes", payload |-> payload, matches |-> matches, path |-> "",
     readable |-> TRUE]
OtherData ==
    [kind |-> "other", payload |-> "", matches |-> <<>>, path |-> "", readable |-> TRUE]
Path(path, readable, payload, matches) ==
    [kind |-> "path", payload |-> payload, matches |-> matches, path |-> path,
     readable |-> readable]

CharsetMatch(encoding, chaos0, text) ==
    [encoding |-> encoding, chaos0 |-> chaos0, text |-> text]

\* bytes of ASCII text: from_bytes gives one match, of the encoding ascii
AsciiBytes(text) == Bytes(text, <<CharsetMatch("ascii", TRUE, text)>>)

\* b"": from_bytes gives one match, of the encoding utf_8 and without text
EmptyBytes == Bytes("", <<CharsetMatch("utf_8", TRUE, "")>>)

\* from_bytes(data)
from_bytes(data) == data.matches

\* the condition of the loop over the results: "result.chaos == 0 and
\* isinstance(enc, str) and enc.lower().startswith(("cp", "iso"))"
Preferred(result) ==
    /\ result.chaos0
    /\ StartsWith(Plain(Lower(result.encoding)), "cp")
       \/ StartsWith(Plain(Lower(result.encoding)), "iso")

\* "content = chosen if chosen is not None else str(results.best())": the
\* first preferred result, else the best one; best() of no results is None
Decode(results) ==
    LET hits == {i \in 1 .. Len(results) : Preferred(results[i])}
    IN IF hits # {} THEN results[SetMin(hits)].text
       ELSE IF Len(results) = 0 THEN "None"
       ELSE results[1].text

\* the local content of loads(data) for a str or a bytes object
ContentOf(data) == IF data.kind = "str" THEN data.payload ELSE Decode(from_bytes(data))

\* CupFile.loads(data): [cf, raised, nextId]; data that is neither bytes nor
\* str raises TypeError
loads(cf, data, nextId) ==
    IF data.kind \in {"str", "bytes"} THEN LoadContent(cf, ContentOf(data), nextId)
    ELSE [cf |-> cf, raised |-> TRUE, nextId |-> nextId]

\* os.path.basename(file_path): what follows the last "/"
basename(file_path) ==
    Sub(file_path, MaxOrZero({i \in 1 .. Len(file_path) : Ch(file_path, i) = "/"}) + 1,
        Len(file_path))

\* CupFile.load(file_path): the file name is set first; a file that cannot
\* be read (IOError) is logged and self is returned, else the bytes of the
\* file go to loads
load(cf, data, nextId) ==
    IF ~data.readable
    THEN [cf |-> [cf EXCEPT !.file_name = basename(data.path)], raised |-> FALSE,
          nextId |-> nextId]
    ELSE loads([cf EXCEPT !.file_name = basename(data.path)],
               Bytes(data.payload, data.matches), nextId)

\* CupFile._serialize / dumps
_serialize(cf) ==
    Join(CUP_FIELDS, ",") \o "\n"
    \o Join([i \in 1 .. Len(cf.waypoints) |-> WaypointStr(cf.waypoints[i]) \o "\n"], "")
    \o "-----Related Tasks-----\n"
    \o (IF Len(cf.tasks) > 0 THEN Join(cf.tasks, "\n") ELSE "")

\* CupFile.dumps
dumps(cf) == _serialize(cf)

\* CupFile.airports / outlandings / landables
\* "wpt.style in [..]": a style that is None is in no list
StyleIn(wpt, styles) == ~IsNone(wpt.style) /\ Get(wpt.style) \in styles

\* a variant of landables that leaves the outlandings out
landables_AirportsOnly(cf) == SelectSeq(cf.waypoints, LAMBDA wpt : StyleIn(wpt, {2, 4, 5}))

airports(cf)    == SelectSeq(cf.waypoints, LAMBDA wpt : StyleIn(wpt, {2, 4, 5}))
outlandings(cf) == SelectSeq(cf.waypoints, LAMBDA wpt : StyleIn(wpt, {3}))
landables(cf)   == SelectSeq(cf.waypoints, LAMBDA wpt : StyleIn(wpt, {2, 3, 4, 5}))

(***************************************************************************)
(* models.py: Airport, and the airport directory behind src/db.py          *)
(***************************************************************************)
\* AirportType
AIRPORT_CIVIL == 2
GLIDER_SITE == 1
HELIPORT_MIL == 4
HELIPORT_CIVIL == 7
CLOSED == 8
AIRPORT_WATER == 10
UNKNOWN == 999

\* an Airport as Airport.deserialize_apt_json builds it from a directory row
Airport(source_id, name, x, y, apt_type, style, elev, rw_dir, freq) ==
    [source_id |-> source_id, name |-> name, code |-> None, country |-> "AT",
     location |-> Point(x, y), elev |-> elev, style |-> style, apt_type |-> apt_type,
     rw_dir |-> rw_dir, rw_len |-> None, rw_width |-> None, freq |-> freq]

\* the airports a directory can hold in the model.  Positions are chosen
\* around the airports of the input files (A1 at 46N 13E, A2 at 46 04'N 13 04'E,
\* A3 at 46 04.9'N 13 02'E, A4 at 46 10'N 13 10'E):
\*   R1 open,     0.4' north of A1
\*   R2 closed,   0.4' south of A2
\*   R3 open,     1.35' east of A1
\*   R4 heliport, between A1 and A2, far from both
\*   R5 open,     between A1 and A2, far from both
\*   R6 open,     0.9' south of A3, at the latitude of A2
\*   R7 open,     between A3 and A4, far from both
\*   R8 open,     on the prime meridian at 46N, 0.4' west of A5 (46N 0 00.4'E)
\*   R9 closed,   on the prime meridian, 0.3' north of R8
DirRecords ==
    [id \in {"R1", "R2", "R3", "R4", "R5", "R6", "R7", "R8", "R9"} |->
        IF id = "R1" THEN Airport(id, "Rec One", 780000, 2760400, AIRPORT_CIVIL, 5,
                                  Some(510), Some(90), Some("123.5"))
        ELSE IF id = "R2" THEN Airport(id, "Rec Two", 784000, 2763600, CLOSED, 2,
                                       Some(450), None, None)
        ELSE IF id = "R3" THEN Airport(id, "Rec Three", 781350, 2760000, GLIDER_SITE, 4,
                                       None, Some(180), None)
        ELSE IF id = "R4" THEN Airport(id, "Rec Four", 782000, 2762000, HELIPORT_CIVIL, 5,
                                       Some(300), None, None)
        ELSE IF id = "R5" THEN Airport(id, "Rec Five", 783000, 2761000, AIRPORT_CIVIL, 2,
                                       Some(620), Some(0), Some("118.0"))
        ELSE IF id = "R6" THEN Airport(id, "Rec Six", 782000, 2764000, AIRPORT_CIVIL, 5,
                                       Some(0), Some(270), None)
        ELSE IF id = "R7" THEN Airport(id, "Rec Seven", 786000, 2767000, AIRPORT_CIVIL, 2,
                                       Some(700), Some(120), None)
        ELSE IF id = "R8" THEN Airport(id, "Rec Eight", 0, 2760000, AIRPORT_CIVIL, 5,
                                       Some(200), Some(30), None)
        ELSE Airport(id, "Rec Nine", 0, 2760300, CLOSED, 2, None, None, None)]

\* Airport.to_cup(): a new CupWaypoint with _id = id, [w, raised]
to_cup(apt, id) ==
    NewCupWaypoint(id,
        [name |-> StrV(apt.name), lat |-> FloatV(apt.location.y),
         lon |-> FloatV(apt.location.x), code |-> OptStrV(apt.code),
         country |-> StrV(apt.country), elev |-> OptIntV(apt.elev),
         style |-> IntV(apt.style), rwdir |-> OptIntV(apt.rw_dir),
         rwlen |-> OptIntV(apt.rw_len), rwwidth |-> OptIntV(apt.rw_width),
         freq |-> OptStrV(apt.freq), userdata |-> NoneV, desc |-> NoneV, pics |-> NoneV])

\* metres between two points as the directory reports them: one unit of
\* latitude or longitude is 1.852 m, along the axes
DistanceM(p, q) == ((Abs(p.x - q.x) + Abs(p.y - q.y)) * 1852) \div 1000

\* the RPC get_nearby_airports_bulk: one row per point, 1-indexed point_index,
\* the nearest airport of the directory within the threshold or a null id
NearbyAirportsBulk(dir, points, threshold) ==
    [i \in 1 .. Len(points) |->
        LET near == {id \in dir : DistanceM(points[i], DirRecords[id].location) <= threshold}
            best == CHOOSE id \in near : \A o \in near :
                        DistanceM(points[i], DirRecords[id].location)
                            <= DistanceM(points[i], DirRecords[o].location)
        IN IF near = {} THEN [point_index |-> i, id |-> None, distance |-> None]
           ELSE [point_index |-> i, id |-> Some(best),
                 distance |-> Some(DistanceM(points[i], DirRecords[best].location))]]

\* get_nearest_airport_bulk(locations, treshold_m): the rows of the RPC
get_nearest_airport_bulk(dir, locations, treshold_m) ==
    NearbyAirportsBulk(dir, locations, treshold_m)

\* the RPC get_airports_in_bbox: the airports of the directory inside the box
\* whose id and type are not excluded, in the order of their ids
AirportsInBbox(dir, bbox, exclude_ids, exclude_apt_types) ==
    LET hit == {id \in dir :
                   /\ bbox[1] <= DirRecords[id].location.x
                   /\ DirRecords[id].location.x <= bbox[3]
                   /\ bbox[2] <= DirRecords[id].location.y
                   /\ DirRecords[id].location.y <= bbox[4]
                   /\ id \notin exclude_ids
                   /\ DirRecords[id].apt_type \notin exclude_apt_types}
        order == <<"R1", "R2", "R3", "R4", "R5", "R6", "R7", "R8", "R9">>
    IN SelectSeq(order, LAMBDA id : id \in hit)

SeqSet(q) == {q[i] : i \in 1 .. Len(q)}

\* get_apts_in_bbox(bbox, exclude_source_ids, exclude_apt_types)
get_apts_in_bbox(dir, bbox, exclude_source_ids, exclude_apt_types) ==
    AirportsInBbox(dir, bbox, SeqSet(exclude_source_ids), exclude_apt_types)

\* MultiPoint(points).bounds: (minx, miny, maxx, maxy)
Bounds(points) ==
    LET xs == {points[i].x : i \in 1 .. Len(points)}
        ys == {points[i].y : i \in 1 .. Len(points)}
    IN <<CHOOSE v \in xs : \A o \in xs : v <= o, CHOOSE v \in ys : \A o \in ys : v <= o,
         CHOOSE v \in xs : \A o \in xs : v >= o, CHOOSE v \in ys : \A o \in ys : v >= o>>

\* parse_annotated_airports(results): point_index -> AirportDistance or None
parse_annotated_airports(results) ==
    [i \in {results[k].point_index : k \in 1 .. Len(results)} |->
        LET record == results[CHOOSE k \in 1 .. Len(results) : results[k].point_index = i]
        IN IF IsNone(record.id) THEN None
           ELSE Some([apt |-> DirRecords[Get(record.id)], distance |-> record.distance])]

(***************************************************************************)
(* src/update_airports_in_cup.py                                           *)
(***************************************************************************)
\* "chunk_size = 500": the batch size of update_airports_in_cup
chunk_size == 500

\* the attributes update_cup_waypoint copies
fields(fix_location) ==
    IF fix_location
    THEN <<"lat", "lon", "elev", "style", "rwdir", "rwlen", "rwwidth", "freq">>
    ELSE <<"elev", "style", "rwdir", "rwlen", "rwwidth", "freq">>

\* getattr(waypoint, attr) as the value handed on to setattr
GetAttrV(w, attr) ==
    IF attr = "lat" \/ attr = "lon" THEN FloatV(w[attr])
    ELSE IF attr \in {"elev", "rwlen", "rwwidth"} THEN OptNumV(w[attr])
    ELSE IF attr \in {"style", "rwdir"} THEN OptIntV(w[attr])
    ELSE OptStrV(w[attr])

RECURSIVE update_cup_waypoint(_, _, _, _)
\* after "setattr(waypoint1, attr, new_value)" with outcome r
AfterSetattr(r, waypoint2, attrs, i) ==
    IF r.raised THEN r ELSE update_cup_waypoint(r.w, waypoint2, attrs, i + 1)

\* update_cup_waypoint(waypoint1, waypoint2, attrs) from attribute i on:
\* only truthy values are copied; [w, raised]
update_cup_waypoint(waypoint1, waypoint2, attrs, i) ==
    IF i > Len(attrs) THEN Ok(waypoint1)
    ELSE IF Truthy(GetAttrV(waypoint2, attrs[i]))
    THEN AfterSetattr(SetAttr(waypoint1, attrs[i], GetAttrV(waypoint2, attrs[i])),
                      waypoint2, attrs, i)
    ELSE update_cup_waypoint(waypoint1, waypoint2, attrs, i + 1)

\* tresholds: range(500, (update_r // 500) * 500, 500)
Tresholds(update_r) ==
    {t \in 1 .. update_r : t % 500 = 0 /\ t >= 500 /\ t < (update_r \div 500) * 500}

\* counts[key] += 1 for the first treshold the distance does not exceed
BumpBucket(buckets, distance) ==
    LET fit == {t \in DOMAIN buckets : distance <= t}
    IN IF fit = {} THEN buckets
       ELSE LET t == CHOOSE v \in fit : \A o \in fit : v <= o
            IN [buckets EXCEPT ![t] = @ + 1]

EmptyReport ==
    [updated |-> <<>>, deleted |-> <<>>, not_found |-> <<>>, not_updated |-> <<>>,
     added |-> <<>>]

\* the waypoint object with the given _id in a list of waypoints
ById(wpts, id) == wpts[CHOOSE i \in 1 .. Len(wpts) : wpts[i].id = id]

\* a variant of RemoveId that leaves the list as it is
RemoveId_Kept(wpts, id) == wpts

\* list.remove(w) / the list with object w replaced by its new state
RemoveId(wpts, id) == SelectSeq(wpts, LAMBDA w : w.id # id)
ReplaceId(wpts, nw) == [i \in 1 .. Len(wpts) |-> IF wpts[i].id = nw.id THEN nw ELSE wpts[i]]

\* "update_cup_waypoint(apt_in_cup, closest_apt.to_cup(), fields)" with outcome
\* u, and the bucket counts after it
ApplyUpdate(st, distance, u) ==
    [st EXCEPT !.cup_file.waypoints = ReplaceId(@, u.w),
               !.raised = u.raised,
               !.buckets = IF u.raised THEN @ ELSE BumpBucket(@, distance)]

\* a variant of ClassifyFar that applies the candidate to the waypoint
ClassifyFar_Applied(st, apt_in_cup, distance, cup) ==
    IF cup.raised THEN [st EXCEPT !.raised = TRUE]
    ELSE [st EXCEPT !.nextId = @ + 1,
                    !.cup_file.waypoints =
                        ReplaceId(@, update_cup_waypoint(apt_in_cup, cup.w,
                                                         <<"elev", "style">>, 1).w),
                    !.data_report.not_updated =
                        Append(@, [old |-> apt_in_cup, match |-> cup.w,
                                   distance |-> distance])]

\* the else branch of "if closest_apt.distance <= update_r": the waypoint and
\* the candidate go to not_updated, the candidate is not applied
ClassifyFar(st, apt_in_cup, distance, cup) ==
    IF cup.raised THEN [st EXCEPT !.raised = TRUE]
    ELSE [st EXCEPT !.nextId = @ + 1,
                    !.data_report.not_updated =
                        Append(@, [old |-> apt_in_cup, match |-> cup.w,
                                   distance |-> distance])]

\* the body of the loop for an airport waypoint with a closest airport at a
\* known distance; cup is closest_apt.to_cup(), built where the source calls it
ClassifyMatched(st, apt_in_cup, closest, distance, in, cup) ==
    IF distance <= in.update_r
    THEN IF closest.apt_type # CLOSED
         THEN IF cup.raised
              THEN [st EXCEPT !.seen_ids = Append(@, closest.source_id),
                              !.data_report.updated =
                                  Append(@, [old |-> apt_in_cup, id |-> apt_in_cup.id,
                                             distance |-> distance]),
                              !.raised = TRUE]
              ELSE ApplyUpdate(
                       [st EXCEPT !.seen_ids = Append(@, closest.source_id),
                                  !.data_report.updated =
                                      Append(@, [old |-> apt_in_cup, id |-> apt_in_cup.id,
                                                 distance |-> distance]),
                                  !.nextId = @ + 1],
                       distance,
                       update_cup_waypoint(apt_in_cup, cup.w, fields(in.fix_location), 1))
         ELSE IF in.delete_closed
         THEN IF cup.raised
              THEN [st EXCEPT !.seen_ids = Append(@, closest.source_id),
                              !.raised = TRUE,
                              !.cup_file.waypoints = RemoveId(@, apt_in_cup.id)]
              ELSE [st EXCEPT !.seen_ids = Append(@, closest.source_id),
                              !.nextId = @ + 1,
                              !.cup_file.waypoints = RemoveId(@, apt_in_cup.id),
                              !.data_report.deleted =
                                  Append(@, [old |-> apt_in_cup, match |-> cup.w,
                                             distance |-> distance])]
         ELSE [st EXCEPT !.seen_ids = Append(@, closest.source_id)]
    ELSE ClassifyFar(st, apt_in_cup, distance, cup)

\* the body of "for point_index, apt_in_cup in enumerate(apt_chunk)" for one
\* airport waypoint; st holds the state of the run that the loop changes
ClassifyOne(st, apt_id, closest_apt, in) ==
    IF IsNone(closest_apt) \/ IsNone(Get(closest_apt).distance)
    THEN [st EXCEPT !.data_report.not_found = Append(@, ById(st.cup_file.waypoints, apt_id))]
    ELSE ClassifyMatched(st, ById(st.cup_file.waypoints, apt_id), Get(closest_apt).apt,
                         Get(Get(closest_apt).distance), in,
                         to_cup(Get(closest_apt).apt, st.nextId))

\* a variant of RowFor that counts the positions of a batch from one less,
\* as enumerate() does
RowFor_Enumerated(airports_from_db, place) ==
    IF place - 1 \in DOMAIN airports_from_db THEN airports_from_db[place - 1] ELSE None

\* airports_from_db.get(point_index + 1) for the waypoint at place
\* point_index + 1 of its batch: None when the answer has no such row
RowFor(airports_from_db, place) ==
    IF place \in DOMAIN airports_from_db THEN airports_from_db[place] ELSE None

RECURSIVE ClassifyChunk(_, _, _, _, _, _)
\* the loop over the places lo .. hi of one batch: apt_chunk holds the _ids
\* of its waypoints, the waypoint at 0-based position point_index takes the
\* row point_index + 1; a raise ends the loop
ClassifyChunk(st, apt_chunk, airports_from_db, in, lo, hi) ==
    IF st.raised \/ lo > hi THEN st
    ELSE IF lo = hi THEN ClassifyOne(st, apt_chunk[lo], RowFor(airports_from_db, lo), in)
    ELSE ClassifyChunk(ClassifyChunk(st, apt_chunk, airports_from_db, in,
                                     lo, (lo + hi) \div 2),
                       apt_chunk, airports_from_db, in, (lo + hi) \div 2 + 1, hi)

\* exclude_apt_types of the bounding-box query
ExcludeAptTypes == {AIRPORT_WATER, CLOSED, HELIPORT_CIVIL, HELIPORT_MIL, UNKNOWN}

\* a variant of AppendWpt that puts the new waypoint first
AppendWpt_First(waypoints, w) == <<w>> \o waypoints

\* cup_file.waypoints.append(w)
AppendWpt(waypoints, w) == Append(waypoints, w)

RECURSIVE AddNew(_, _, _)
\* the body of "for apt in new_apts": the waypoint appended to the file (c1)
\* and the one appended to the report (c2) are two objects built by two
\* to_cup() calls
AddOne(st, new_apts, i, source_id, c1, c2) ==
    IF c1.raised THEN [st EXCEPT !.raised = TRUE]
    ELSE AddNew([st EXCEPT !.cup_file.waypoints = AppendWpt(@, c1.w),
                           !.seen_ids = Append(@, source_id),
                           !.data_report.added = Append(@, c2.w),
                           !.nextId = @ + 2],
                new_apts, i + 1)

\* "for apt in new_apts" from the i-th on
AddNew(st, new_apts, i) ==
    IF i > Len(new_apts) \/ st.raised THEN st
    ELSE AddOne(st, new_apts, i, DirRecords[new_apts[i]].source_id,
                to_cup(DirRecords[new_apts[i]], st.nextId),
                to_cup(DirRecords[new_apts[i]], st.nextId + 1))

\* chunked(seq, chunk_size): the k-th chunk
Chunk(seq, k) ==
    SubSeq(seq, (k - 1) * chunk_size + 1,
           IF k * chunk_size > Len(seq) THEN Len(seq) ELSE k * chunk_size)

NumChunks(seq) == (Len(seq) + chunk_size - 1) \div chunk_size

(***************************************************************************)
(* utils/units.py: parse_openair_latlon                                    *)
(***************************************************************************)
\* the characters \s matches inside a line
Blanks == Whitespace

RECURSIVE ReplaceCh(_, _, _)
\* str.replace(old, new) for one-character strings
ReplaceCh(s, old, new) ==
    IF Len(s) = 0 THEN ""
    ELSE IF Len(s) = 1 THEN (IF s = old THEN new ELSE s)
    ELSE ReplaceCh(Sub(s, 1, Len(s) \div 2), old, new)
         \o ReplaceCh(Sub(s, Len(s) \div 2 + 1, Len(s)), old, new)

RECURSIVE RunOf(_, _, _)
\* number of consecutive characters of s from position i on that are in cs
RunOf(s, i, cs) ==
    IF i <= Len(s) /\ IndexIn(Ch(s, i), cs, 1) > 0 THEN 1 + RunOf(s, i + 1, cs) ELSE 0

\* 1 when the character of s at position i is one of cs, else 0
OneOf(s, i, cs) == IF i <= Len(s) /\ IndexIn(Ch(s, i), cs, 1) > 0 THEN 1 ELSE 0

\* (\d+):(\d+):([\d\.]+) at position i of s, the three runs given:
\* [ok, d, m, sec, end], end the position of the last character matched
MatchDmsSec(s, i, dRun, mRun, sRun) ==
    IF /\ dRun > 0 /\ Ch(s, i + dRun) = ":"
       /\ mRun > 0 /\ Ch(s, i + dRun + 1 + mRun) = ":"
       /\ sRun > 0
    THEN [ok  |-> TRUE,
          d   |-> Sub(s, i, i + dRun - 1),
          m   |-> Sub(s, i + dRun + 1, i + dRun + mRun),
          sec |-> Sub(s, i + dRun + mRun + 2, i + dRun + mRun + 1 + sRun),
          end |-> i + dRun + mRun + 1 + sRun]
    ELSE [ok |-> FALSE, d |-> "", m |-> "", sec |-> "", end |-> 0]

RECURSIVE SecChars(_, _)
\* [\d\.]+ at position i of s: the number of characters it takes
SecChars(s, i) ==
    IF i <= Len(s) /\ (IsDigit(Ch(s, i)) \/ Ch(s, i) = ".") THEN 1 + SecChars(s, i + 1)
    ELSE 0

MatchDmsMin(s, i, dRun, mRun) ==
    MatchDmsSec(s, i, dRun, mRun, SecChars(s, i + dRun + mRun + 2))

MatchDmsDeg(s, i, dRun) == MatchDmsMin(s, i, dRun, DigitRun(s, i + dRun + 1))

MatchDms(s, i) == MatchDmsDeg(s, i, DigitRun(s, i))

\* ([NS])?\s*([NS])?\s+ at position p, h1 and h2 telling whether a letter is
\* at p and after the blanks that follow, w1 and w2 the blanks after each:
\* [ok, h, next], h the first letter found, next the position after the match
LatTailRuns(s, p, h1, w1, h2, w2) ==
    IF h2 = 1 /\ w2 >= 1
    THEN [ok |-> TRUE, h |-> IF h1 = 1 THEN Ch(s, p) ELSE Ch(s, p + h1 + w1),
          next |-> p + h1 + w1 + 1 + w2]
    ELSE IF w1 >= 1
    THEN [ok |-> TRUE, h |-> IF h1 = 1 THEN Ch(s, p) ELSE "", next |-> p + h1 + w1]
    ELSE [ok |-> FALSE, h |-> "", next |-> 0]

LatTailBlanks(s, p, h1, w1) ==
    LatTailRuns(s, p, h1, w1, OneOf(s, p + h1 + w1, "NS"),
                RunOf(s, p + h1 + w1 + 1, Blanks))

LatTailLetter(s, p, h1) == LatTailBlanks(s, p, h1, RunOf(s, p + h1, Blanks))

LatTail(s, p) == LatTailLetter(s, p, OneOf(s, p, "NS"))

\* ([EW])?\s*([EW])? at position p: the first letter found, "" when none
LonTailBlanks(s, p, h1, w1) ==
    IF h1 = 1 THEN Ch(s, p)
    ELSE IF OneOf(s, p + w1, "EW") = 1 THEN Ch(s, p + w1)
    ELSE ""

LonTail(s, p) == LonTailBlanks(s, p, OneOf(s, p, "EW"), RunOf(s, p, Blanks))

\* s is the word w, in any case: W is w in upper case
IsWord(s, w, W) ==
    Len(s) = Len(w) /\ \A i \in 1 .. Len(s) : Ch(s, i) = Ch(w, i) \/ Ch(s, i) = Ch(W, i)

\* every underscore of s stands between two digits
UnderscoresApart(s) ==
    \A i \in 1 .. Len(s) :
        Ch(s, i) = "_" => IsDigit(Ch(s, i - 1)) /\ IsDigit(Ch(s, i + 1))

\* the float of a decimal literal that is all of t
FloatOfNumber(t, num) ==
    IF num.ok /\ num.end = Len(t)
    THEN Some(DecimalFloat(num.neg, num.digits, num.exp - num.decs))
    ELSE None

\* the float of t, body what follows the sign of t: inf, infinity and nan in
\* any case, or a decimal literal
FloatOfBody(t, body) ==
    IF IsWord(body, "inf", "INF") \/ IsWord(body, "infinity", "INFINITY")
    THEN Some(Infinity(Ch(t, 1) = "-"))
    ELSE IF IsWord(body, "nan", "NAN") THEN Some(NaN)
    ELSE FloatOfNumber(t, MatchNumber(t))

\* the float of a text without white space at its ends
FloatOfText(t) ==
    IF ~UnderscoresApart(t) THEN None
    ELSE FloatOfBody(ReplaceCh(t, "_", ""),
                     Sub(ReplaceCh(t, "_", ""), SignLen(t, 1) + 1, Len(t)))

\* float(s) of a str: None when float raises ValueError.  The digits are the
\* decimal digits of any script, and single underscores may group them.
FloatOf(s) == FloatOfText(StripSet(s, NumberSpace))

\* float(s) of a run of decimal digits
FloatOfDigits(s) == DecimalFloat(FALSE, s, 0)

\* dms_to_dd(d, m, s)
dms_to_dd(d, m, s) ==
    AddFloat(AddFloat(d, DivFloat(m, FloatOfInt(60))), DivFloat(s, FloatOfInt(3600)))

\* dms_to_dd(float(d), float(m), float(s)) of the groups g, sec the float of
\* the seconds, negated when the hemisphere h is neg
DmsValue(v, negated) == IF negated THEN NegFloat(v) ELSE v

DmsToDd(g, sec, h, neg) ==
    DmsValue(dms_to_dd(FloatOfDigits(g.d), FloatOfDigits(g.m), sec), h = neg)

\* a coordinate that is rejected (ValueError)
NoLatLon == [ok |-> FALSE, lat |-> SignedZero(FALSE), lon |-> SignedZero(FALSE)]

\* the groups of a match, converted: [ok, lat, lon]; laSec and loSec are
\* float() of the seconds
LatLonValues(la, laSec, lt, lo, loSec, loH) ==
    IF IsNone(laSec) \/ IsNone(loSec) THEN NoLatLon
    ELSE [ok |-> TRUE, lat |-> DmsToDd(la, Get(laSec), lt.h, "S"),
          lon |-> DmsToDd(lo, Get(loSec), loH, "W")]

LatLonLon(s, la, lt, lo) ==
    IF ~lo.ok THEN NoLatLon
    ELSE LatLonValues(la, FloatOf(la.sec), lt, lo, FloatOf(lo.sec), LonTail(s, lo.end + 1))

LatLonTail(s, la, lt) ==
    IF ~lt.ok THEN NoLatLon ELSE LatLonLon(s, la, lt, MatchDms(s, lt.next))

LatLonLat(s, la) ==
    IF ~la.ok THEN NoLatLon ELSE LatLonTail(s, la, LatTail(s, la.end + 1))

\* parse_openair_latlon(latlon): [ok, lat, lon]; ok = FALSE is ValueError
parse_openair_latlon(latlon) ==
    LatLonLat(ReplaceCh(latlon, ",", " "), MatchDms(ReplaceCh(latlon, ",", " "), 1))

(***************************************************************************)
(* utils/units.py: parse_line_to_lon_lat_any and the three parsers         *)
(***************************************************************************)
\* (?:\.\d+)? at position p: the number of characters it takes
FracRun(s, p) ==
    IF Ch(s, p) = "." /\ DigitRun(s, p + 1) > 0 THEN 1 + DigitRun(s, p + 1) ELSE 0

\* \d+(?:\.\d+)? at position p, n the run of digits there
SecRunOf(s, p, n) == IF n = 0 THEN 0 ELSE n + FracRun(s, p + n)

SecRun(s, p) == SecRunOf(s, p, DigitRun(s, p))

\* \d+:\d+:\d+(?:\.\d+)? at position i of s: [ok, d, m, sec, end]
MatchDmsFracMin(s, i, dRun, mRun) ==
    MatchDmsSec(s, i, dRun, mRun, SecRun(s, i + dRun + mRun + 2))

MatchDmsFracDeg(s, i, dRun) == MatchDmsFracMin(s, i, dRun, DigitRun(s, i + dRun + 1))

MatchDmsFrac(s, i) == MatchDmsFracDeg(s, i, DigitRun(s, i))

\* the rest of the match of the DP pattern after its latitude
DpLon(s, la, lt, lo) ==
    IF ~lo.ok THEN NoLatLon
    ELSE LatLonValues(la, FloatOf(la.sec), lt, lo, FloatOf(lo.sec), LonTail(s, lo.end + 1))

DpTail(s, la, lt) == IF ~lt.ok THEN NoLatLon ELSE DpLon(s, la, lt, MatchDmsFrac(s, lt.next))

DpLat(s, la) == IF ~la.ok THEN NoLatLon ELSE DpTail(s, la, LatTail(s, la.end + 1))

\* re.match of the DP pattern on the body of the line
DpBody(body) == DpLat(body, MatchDmsFrac(body, 1))

\* the line stripped: "DP " in any case, then the body
DpLine(line) ==
    IF ~StartsWith(Plain(Upper(line)), "DP ") THEN NoLatLon
    ELSE DpBody(Strip(Sub(line, 3, Len(line))))

\* parse_line_to_lon_lat(line): [ok, lat, lon], returned as (lon, lat)
parse_line_to_lon_lat(line) == DpLine(Strip(line))

\* (\d{2,3})(\d{2})(\d{2}(?:\.\d+)?)([NS]) at position i, n the run of digits
\* there and hs the letters allowed: [ok, d, m, sec, h, end]
AipCoordOf(s, i, n, hs) ==
    IF n \in {6, 7} /\ OneOf(s, i + n + FracRun(s, i + n), hs) = 1
    THEN [ok  |-> TRUE,
          d   |-> Sub(s, i, i + n - 5),
          m   |-> Sub(s, i + n - 4, i + n - 3),
          sec |-> Sub(s, i + n - 2, i + n - 1 + FracRun(s, i + n)),
          h   |-> Ch(s, i + n + FracRun(s, i + n)),
          end |-> i + n + FracRun(s, i + n)]
    ELSE [ok |-> FALSE, d |-> "", m |-> "", sec |-> "", h |-> "", end |-> 0]

AipCoord(s, i, hs) == AipCoordOf(s, i, DigitRun(s, i), hs)

\* the groups of a match of the AIP or the eAPI pattern, converted
HemiValues(la, lo) ==
    [ok |-> TRUE,
     lat |-> DmsToDd(la, Get(FloatOf(la.sec)), la.h, "S"),
     lon |-> DmsToDd(lo, Get(FloatOf(lo.sec)), lo.h, "W")]

\* the rest of the match of the AIP pattern after its latitude, w the blanks
\* after it
AipLon(la, w, lo) == IF w = 0 \/ ~lo.ok THEN NoLatLon ELSE HemiValues(la, lo)

AipBlanks(s, la, w) == AipLon(la, w, AipCoord(s, la.end + 1 + w, "EW"))

AipLat(s, la) == IF ~la.ok THEN NoLatLon ELSE AipBlanks(s, la, RunOf(s, la.end + 1, Blanks))

\* pattern.match(s) of parse_aip_point
AipMatch(s) == AipLat(s, AipCoord(s, 1, "NS"))

\* the second attempt, on the string with its blanks kept
AipSecond(first, spaced) == IF first.ok THEN first ELSE AipMatch(spaced)

\* aip_str.replace("°", "").replace("'", "").replace('"', "")
AipPlain(aip_str) == ReplaceCh(ReplaceCh(ReplaceCh(aip_str, "°", ""), "'", ""), "\"", "")

\* parse_aip_point(aip_str): [ok, lat, lon], returned as (lat, lon)
parse_aip_point(aip_str) ==
    AipSecond(AipMatch(ReplaceCh(AipPlain(aip_str), " ", "")), AipPlain(aip_str))

\* (\d+)\s+ at position p, n the digits there and w the blanks after them:
\* [ok, text, next]
EapiFieldOf(s, p, n, w) ==
    IF n > 0 /\ w > 0 THEN [ok |-> TRUE, text |-> Sub(s, p, p + n - 1), next |-> p + n + w]
    ELSE [ok |-> FALSE, text |-> "", next |-> 0]

EapiFieldRun(s, p, n) == EapiFieldOf(s, p, n, RunOf(s, p + n, Blanks))

EapiField(s, p) == EapiFieldRun(s, p, DigitRun(s, p))

\* (\d+)\s+(\d+)\s+(\d+)\s+([NS]) at position p: [ok, d, m, sec, h, end]
EapiCoordOf(s, d, m, sec, hs) ==
    IF d.ok /\ m.ok /\ sec.ok /\ OneOf(s, sec.next, hs) = 1
    THEN [ok |-> TRUE, d |-> d.text, m |-> m.text, sec |-> sec.text,
          h |-> Ch(s, sec.next), end |-> sec.next]
    ELSE [ok |-> FALSE, d |-> "", m |-> "", sec |-> "", h |-> "", end |-> 0]

EapiCoordMin(s, d, m, hs) ==
    EapiCoordOf(s, d, m, IF m.ok THEN EapiField(s, m.next) ELSE m, hs)

EapiCoordDeg(s, d, hs) == EapiCoordMin(s, d, IF d.ok THEN EapiField(s, d.next) ELSE d, hs)

EapiCoord(s, p, hs) == EapiCoordDeg(s, EapiField(s, p), hs)

\* the rest of the match of the eAPI pattern after its latitude
EapiLon(la, w, lo) == IF w = 0 \/ ~lo.ok THEN NoLatLon ELSE HemiValues(la, lo)

EapiBlanks(s, la, w) == EapiLon(la, w, EapiCoord(s, la.end + 1 + w, "EW"))

EapiLat(s, la) == IF ~la.ok THEN NoLatLon ELSE EapiBlanks(s, la, RunOf(s, la.end + 1, Blanks))

EapiMatch(s) == EapiLat(s, EapiCoord(s, 1, "NS"))

\* parse_eapi_line(line): [ok, lat, lon], returned as (lon, lat)
parse_eapi_line(line) == EapiMatch(Strip(line))

\* the tuples the three parsers return
LonLat(r) == <<r.lon, r.lat>>
LatLon(r) == <<r.lat, r.lon>>

(***************************************************************************)
(* math.cos and math.sin of a float: the functions cos and sin of the C    *)
(* library the interpreter calls (glibc 2.36 on x86-64, the variant built  *)
(* with fused multiply-add: sysdeps/ieee754/dbl-64/s_sin.c, branred.c),    *)
(* operation for operation, each rounded as the processor rounds it.  A    *)
(* function of the library that is called from more than one place is      *)
(* called by its name, through Libm.                                       *)
(***************************************************************************)
RECURSIVE Gor(_, _)
RECURSIVE Libm(_, _)

\* the float of the four 16-bit words of its encoding, the high word first:
\* the 52 bits of the fraction and above them the bit top, as digits
WordsMant(w, top) ==
    Norm(<<w[4] % Base,
           (w[4] \div Base) + 2 * (w[3] % 2 ^ 14),
           (w[3] \div 2 ^ 14) + 4 * (w[2] % 2 ^ 13),
           (w[2] \div 2 ^ 13) + 8 * ((w[1] % 16) + 16 * top)>>)

\* the exponent field of the encoding
WordsField(w) == (w[1] % 32768) \div 16

\* the float of the sign, the exponent field and the significand m
WordsOf(neg, field, m) ==
    IF field = 2047 THEN (IF m = <<>> THEN Infinity(neg) ELSE NaN)
    ELSE IF field = 0
    THEN [neg |-> neg, inf |-> FALSE, m |-> m, e |-> IF m = <<>> THEN 0 ELSE 0 - 1074]
    ELSE [neg |-> neg, inf |-> FALSE, m |-> m, e |-> field - 1075]

WordsFloat(w) ==
    WordsOf(w[1] >= 32768, WordsField(w),
            WordsMant(w, IF WordsField(w) \in {0, 2047} THEN 0 ELSE 1))

\* the float whose encoding has the high 32 bits h and the low 32 bits zero
HighFloat(h) == WordsFloat(<<h \div 65536, h % 65536, 0, 0>>)

\* the high 32 bits of the encoding of x without the sign bit: the "k" and
\* "m" the functions branch on
HighWord(x) ==
    IF IsNaN(x) THEN \h7ff80000
    ELSE IF x.inf THEN \h7ff00000
    ELSE IF BitLen(x.m) < MantBits THEN BigVal(ShiftDown(x.m, 32))
    ELSE (x.e + 1074) * 2 ^ 20 + BigVal(ShiftDown(x.m, 32))

\* copysign(x, y)
CopySign(x, y) == [x EXCEPT !.neg = y.neg]

\* the value of a float that is a small integer
IntOfFloat(x) ==
    IF x.neg THEN 0 - BigVal(TruncFloat(x)) ELSE BigVal(TruncFloat(x))

\* the operations on floats as the library's code writes them: x + y, x - y,
\* x * y and the fused x * y + z
Plus(x, y) == Libm("AddFloat", <<x, y>>)
Minus(x, y) == Libm("SubFloat", <<x, y>>)
Times(x, y) == Libm("MulFloat", <<x, y>>)
Fused(x, y, z) == Libm("FmaFloat", <<x, y, z>>)

\* x * y + z rounded once, the fused multiply-add of the processor
FmaFloat(x, y, z) ==
    IF x.inf \/ y.inf \/ z.inf \/ x.m = <<>> \/ y.m = <<>>
    THEN Plus(Times(x, y), z)
    ELSE IF z.m = <<>> THEN Times(x, y)
    ELSE SumAligned(x.neg # y.neg,
                    ShiftUp(BigMul(x.m, y.m),
                            IF x.e + y.e > z.e THEN x.e + y.e - z.e ELSE 0),
                    z.neg,
                    ShiftUp(z.m, IF z.e > x.e + y.e THEN z.e - (x.e + y.e) ELSE 0),
                    IF x.e + y.e < z.e THEN x.e + y.e ELSE z.e)

\* x < y, neither not-a-number: the difference of two floats is zero only
\* when they are equal
FloatLess(x, y) == LessZero(Minus(x, y))

\* the constants of s_sin.c
\* big, 1.5 * 2^45: adding it rounds to a multiple of 1 / 128
sincos_big == WordsFloat(<<\h42c8, \h0000, \h0000, \h0000>>)
\* the polynomials of the sine and the cosine of the rest
sn3 == WordsFloat(<<\hbfc5, \h5555, \h5555, \h5515>>)
sn5 == WordsFloat(<<\h3f81, \h1110, \he829, \h872f>>)
cs2 == WordsFloat(<<\h3fe0, \h0000, \h0000, \h0000>>)
cs4 == WordsFloat(<<\hbfa5, \h5555, \h5555, \h5535>>)
cs6 == WordsFloat(<<\h3f56, \hc16b, \hedd9, \he239>>)
\* the Taylor polynomial of the sine below 0.126
s1 == WordsFloat(<<\hbfc5, \h5555, \h5555, \h5555>>)
s2 == WordsFloat(<<\h3f81, \h1111, \h1111, \h0ece>>)
s3 == WordsFloat(<<\hbf2a, \h01a0, \h19db, \h08b8>>)
s4 == WordsFloat(<<\h3ec7, \h1de2, \h7b9a, \h7ed9>>)
s5 == WordsFloat(<<\hbe5a, \hddff, \hc2fc, \hdf59>>)
\* 0.126
TaylorLimit == WordsFloat(<<\h3fc0, \h20c4, \h9ba5, \he354>>)
\* pi / 2 in two floats
hp0 == WordsFloat(<<\h3ff9, \h21fb, \h5444, \h2d18>>)
hp1 == WordsFloat(<<\h3c91, \ha626, \h3314, \h5c07>>)
\* 2 / pi, and toInt, 1.5 * 2^52: adding it rounds to an integer
hpinv == WordsFloat(<<\h3fe4, \h5f30, \h6dc9, \hc883>>)
toint == WordsFloat(<<\h4338, \h0000, \h0000, \h0000>>)
\* pi / 2 in the four pieces of reduce_sincos
mp1 == WordsFloat(<<\h3ff9, \h21fb, \h5800, \h0000>>)
mp2 == WordsFloat(<<\hbe4d, \hde97, \h3c00, \h0000>>)
pp3 == WordsFloat(<<\hbc8c, \hb3b3, \h9800, \h0000>>)
pp4 == WordsFloat(<<\hbacd, \h747f, \h23e3, \h2ed7>>)

\* the constants of branred.c
\* 2^27 + 1, 2^-600 and 2^-24
split == WordsFloat(<<\h41a0, \h0000, \h0200, \h0000>>)
tm600 == WordsFloat(<<\h1a70, \h0000, \h0000, \h0000>>)
tm24 == WordsFloat(<<\h3e70, \h0000, \h0000, \h0000>>)
\* big, 1.5 * 2^52, and big1, 1.5 * 2^54
branred_big == WordsFloat(<<\h4338, \h0000, \h0000, \h0000>>)
branred_big1 == WordsFloat(<<\h4358, \h0000, \h0000, \h0000>>)
\* the mp2 of branred.c, which differs from the one of s_sin.c
branred_mp2 == WordsFloat(<<\hbe4d, \hde97, \h4000, \h0000>>)

\* toverp: 2 / pi in pieces of 24 bits
toverp ==
    <<10680707, 7228996, 1387004, 2578385, 16069853, 12639074, 9804092,
      4427841, 16666979, 11263675, 12935607, 2387514, 4345298, 14681673,
      3074569, 13734428, 16653803, 1880361, 10960616, 8533493, 3062596,
      8710556, 7349940, 6258241, 3772886, 3769171, 3798172, 8675211,
      12450088, 3874808, 9961438, 366607, 15675153, 9132554, 7151469,
      3571407, 2607881, 12013382, 4155038, 6285869, 7677882, 13102053,
      15825725, 473591, 9065106, 15363067, 6271263, 9264392, 5636912,
      4652155, 7056368, 13614112, 10155062, 1944035, 9527646, 15080200,
      6658437, 6231200, 6832269, 16767104, 5075751, 3212806, 1398474,
      7579849, 6349435, 12618859, 4703257, 12806093, 14477321, 2786137,
      12875403, 9837734, 14528324, 13719321, 343717>>

\* __sincostab: for k = 0 .. 109 the sine of k / 128 in two floats and its
\* cosine in two floats, each float the four words of its encoding
sincostab ==
    <<<<\h0000, \h0000, \h0000, \h0000>>, <<\h0000, \h0000, \h0000, \h0000>>, <<\h3ff0, \h0000, \h0000, \h0000>>,
      <<\h0000, \h0000, \h0000, \h0000>>, <<\h3f7f, \hffea, \haaae, \heeef>>, <<\hbc1e, \h45e2, \hec67, \hb77c>>,
      <<\h3fef, \hffc0, \h0015, \h5552>>, <<\h3c8f, \h4a01, \ha019, \h6dae>>, <<\h3f8f, \hffaa, \haaee, \heed5>>,
      <<\hbc02, \hab63, \h9a9f, \h0777>>, <<\h3fef, \hff00, \h0155, \h549f>>, <<\h3c82, \h8a28, \ha03a, \h5ef3>>,
      <<\h3f97, \hff70, \h0103, \h3255>>, <<\h3bfe, \hfe2b, \h5152, \h7336>>, <<\h3fef, \hfdc0, \h06bf, \hf7e6>>,
      <<\h3c8a, \he6da, \he869, \h77bd>>, <<\h3f9f, \hfeaa, \haeee, \he86f>>, <<\hbc3c, \hd406, \hfb22, \h4ae2>>,
      <<\h3fef, \hfc00, \h1555, \h27d3>>, <<\hbc83, \hb544, \h92d8, \h9b5b>>, <<\h3fa3, \hfeb2, \hb12d, \h45d5>>,
      <<\h3c34, \hec54, \h203d, \h1c11>>, <<\h3fef, \hf9c0, \h3414, \ha7ba>>, <<\h3c69, \h91f4, \hbe6c, \h59bf>>,
      <<\h3fa7, \hfdc0, \h1032, \hfba9>>, <<\hbc45, \h99bd, \hf46e, \h997a>>, <<\h3fef, \hf700, \h6bfd, \hf99f>>,
      <<\hbc78, \hb3b5, \h6064, \h8d5f>>, <<\h3fab, \hfc6d, \h7858, \h6dac>>, <<\h3c18, \he4fd, \h03db, \hf236>>,
      <<\h3fef, \hf3c0, \hc810, \h3a31>>, <<\h3c74, \h856d, \hbddc, \h0e66>>, <<\h3faf, \hfaaa, \heeed, \h4edb>>,
      <<\hbc42, \hd16d, \h3268, \h4b69>>, <<\h3fef, \hf001, \h5549, \hf4d3>>, <<\h3c83, \h2838, \h7b99, \h426f>>,
      <<\h3fb1, \hfc34, \h3d80, \h8bef>>, <<\hbc5f, \h3d32, \he6f3, \hbe4f>>, <<\h3fef, \hebc2, \h22a8, \hef9f>>,
      <<\h3c57, \h9349, \h34f5, \h4c77>>, <<\h3fb3, \hfacb, \h12d1, \h755b>>, <<\hbc59, \h2191, \h5299, \h468c>>,
      <<\h3fef, \he703, \h4129, \hef6f>>, <<\hbc6c, \hbf43, \h37c9, \h6f97>>, <<\h3fb5, \hf911, \hfd10, \hb737>>,
      <<\hbc50, \h184f, \h02be, \h9102>>, <<\h3fef, \he1c4, \hc3c8, \h73eb>>, <<\hbc35, \ha9c9, \h057c, \h4a02>>,
      <<\h3fb7, \hf701, \h0325, \h50e4>>, <<\h3c3a, \hfc2d, \h1800, \h501a>>, <<\h3fef, \hdc06, \hbf7e, \h6b9b>>,
      <<\h3c83, \h1902, \hb535, \hf8db>>, <<\h3fb9, \hf490, \h2d55, \hd1f9>>, <<\h3c52, \h696d, \h7eac, \h1dc1>>,
      <<\h3fef, \hd5c9, \h4b43, \he000>>, <<\hbc62, \he768, \hcb4f, \h92f9>>, <<\h3fbb, \hf1b7, \h8568, \h391d>>,
      <<\h3c5e, \h9184, \h1dea, \h4cc8>>, <<\h3fef, \hcf0c, \h800e, \h99b1>>, <<\h3c6e, \ha3d7, \h86d1, \h86ac>>,
      <<\h3fbd, \hee6f, \h16c1, \hcce6>>, <<\hbc45, \h0f8e, \h2fb7, \h1673>>, <<\h3fef, \hc7d0, \h78d1, \hbc88>>,
      <<\h3c80, \h75d2, \h447d, \hb685>>, <<\h3fbf, \heaae, \hee86, \hee36>>, <<\hbc4a, \hfcb2, \hbcc6, \hf03b>>,
      <<\h3fef, \hc015, \h527d, \h5bd3>>, <<\h3c8b, \h68f3, \h5094, \hefb8>>, <<\h3fc0, \hf337, \h8ddd, \h71d1>>,
      <<\h3c6d, \h8468, \h724f, \h0f9e>>, <<\h3fef, \hb7db, \h2bfe, \h0695>>, <<\h3c82, \h1dad, \hf4f6, \h5ab1>>,
      <<\h3fc1, \hf0d3, \hd7af, \hceaf>>, <<\hbc66, \hef95, \h0997, \h69a5>>, <<\h3fef, \haf22, \h263c, \h4bd3>>,
      <<\hbc55, \h2ace, \h133a, \h2769>>, <<\h3fc2, \hee28, \h5e4a, \hb88f>>, <<\hbc6e, \h4d0f, \h05de, \he058>>,
      <<\h3fef, \ha5ea, \h641c, \h36f2>>, <<\h3c40, \h4da6, \hed17, \hcc7c>>, <<\h3fc3, \heb31, \h2c5d, \h66cb>>,
      <<\h3c64, \h7d66, \h6b66, \hcb91>>, <<\h3fef, \h9c34, \h0a7c, \hc428>>, <<\h3c8c, \h5b6b, \h063b, \h7462>>,
      <<\h3fc4, \he7ea, \h4dc5, \hf27b>>, <<\h3c59, \h49db, \h2ac0, \h72fc>>, <<\h3fef, \h91ff, \h4037, \h4d01>>,
      <<\hbc67, \hd03f, \h4d3a, \h9e4c>>, <<\h3fc5, \he44f, \hcfa1, \h26f3>>, <<\hbc66, \hf443, \h063f, \h89b6>>,
      <<\h3fef, \h874c, \h2e1e, \hecf6>>, <<\hbc8c, \h6514, \he133, \h2b16>>, <<\h3fc6, \he05d, \hc05a, \h4d4c>>,
      <<\hbbd3, \h2c5c, \h8b81, \hc940>>, <<\h3fef, \h7c1a, \hfeff, \hde24>>, <<\hbc78, \hf55b, \hc475, \h40b1>>,
      <<\h3fc7, \hdc10, \h2fba, \hf2b5>>, <<\h3c45, \hab50, \he23c, \h97c3>>, <<\h3fef, \h706b, \hdf9e, \hce1c>>,
      <<\hbc86, \h98c8, \h0c36, \hdcb4>>, <<\h3fc8, \hd763, \h2efa, \ha944>>, <<\hbc62, \h0fa2, \h62cb, \hb953>>,
      <<\h3fef, \h643e, \hfeb8, \h2acd>>, <<\h3c76, \hb00a, \hc1fe, \h28ac>>, <<\h3fc9, \hd252, \hd0ce, \hc312>>,
      <<\h3c59, \hc43d, \h80b1, \h137d>>, <<\h3fef, \h5794, \h8cff, \h6797>>, <<\h3c6e, \h3a0d, \h3e03, \hb1d5>>,
      <<\h3fca, \hccdb, \h297a, \h0765>>, <<\hbc59, \h883b, \h57d6, \hcdeb>>, <<\h3fef, \h4a6c, \hbd1e, \h3a79>>,
      <<\h3c81, \h3df0, \hedae, \hbb57>>, <<\h3fcb, \hc6f8, \h4edc, \h6199>>, <<\h3c69, \hc1a5, \h6a7b, \h0cab>>,
      <<\h3fef, \h3cc7, \hc3b3, \hd16e>>, <<\hbc62, \h1a3a, \hd28a, \h3494>>, <<\h3fcc, \hc0a6, \h5882, \h89a3>>,
      <<\hbc68, \h68d0, \h9bc8, \h7c6b>>, <<\h3fef, \h2ea5, \hd753, \hffed>>, <<\h3c8c, \hc421, \h5f56, \hd583>>,
      <<\h3fcd, \hb9e1, \h5fb5, \ha5d0>>, <<\hbc63, \h2e20, \hd6cc, \h6fc2>>, <<\h3fef, \h2007, \h3086, \h649f>>,
      <<\h3c7b, \h9404, \h16c1, \h984b>>, <<\h3fce, \hb2a5, \h7f8a, \he5a3>>, <<\hbc60, \hbe06, \haf57, \h2ceb>>,
      <<\h3fef, \h10ec, \h09c5, \h873b>>, <<\h3c8d, \h9072, \h762c, \h1283>>, <<\h3fcf, \haaee, \hd4f3, \h1577>>,
      <<\hbc61, \h5d88, \h508e, \h32b8>>, <<\h3fef, \h0154, \h9f7d, \heea1>>, <<\h3c8d, \h3c1e, \h99e5, \hcafd>>,
      <<\h3fd0, \h515c, \hbf65, \h155c>>, <<\hbc79, \hb8c2, \h9dfd, \h8ec8>>, <<\h3fee, \hf141, \h300d, \h2f26>>,
      <<\hbc82, \haa1b, \h08de, \hd372>>, <<\h3fd0, \hcd00, \hcef3, \h6436>>, <<\hbc79, \hfb0a, \h0c93, \he2b5>>,
      <<\h3fee, \he0b1, \hfbc0, \hf11c>>, <<\hbc4b, \hfd23, \h80bb, \hc3b1>>, <<\h3fd1, \h4861, \haa94, \hddeb>>,
      <<\hbc6b, \he881, \hb5b6, \h15a4>>, <<\h3fee, \hcfa7, \h44d5, \hefa1>>, <<\hbc55, \h6d0a, \h4af5, \h41d0>>,
      <<\h3fd1, \hc37d, \h64c6, \hb876>>, <<\h3c74, \h6076, \hfe0d, \hcff5>>, <<\h3fee, \hbe21, \h4f76, \hefa8>>,
      <<\hbc80, \h2f9f, \h12ba, \h543e>>, <<\h3fd2, \h3e52, \h111a, \haf36>>, <<\hbc74, \hf080, \h334e, \hff18>>,
      <<\h3fee, \hac20, \h61bb, \haf4f>>, <<\h3c62, \hc1d5, \h3e94, \h658d>>, <<\h3fd2, \hb8dd, \hc43e, \hb49f>>,
      <<\h3c61, \h5538, \h99f2, \hd807>>, <<\h3fee, \h99a4, \hc3a7, \hcd83>>, <<\hbc82, \h264b, \h1bc5, \h3ce8>>,
      <<\h3fd3, \h331e, \h9404, \h9f87>>, <<\h3c7e, \h0cb6, \hb40c, \h302c>>, <<\h3fee, \h86ae, \hbf29, \ha9ed>>,
      <<\h3c89, \h397a, \hfdbb, \h58a7>>, <<\h3fd3, \had12, \h9769, \hd3d8>>, <<\h3c00, \h3d55, \h0487, \h8398>>,
      <<\h3fee, \h733e, \ha019, \h3d40>>, <<\hbc86, \h428b, \h3546, \hce13>>, <<\h3fd4, \h26b7, \he69e, \he697>>,
      <<\hbc7f, \h09c7, \h5705, \hc59f>>, <<\h3fee, \h5f54, \hb436, \he9d0>>, <<\h3c87, \heb0f, \hd02f, \hc8bc>>,
      <<\h3fd4, \ha00c, \h9b0f, \h3d20>>, <<\h3c78, \h23ba, \h6bb0, \h8ead>>, <<\h3fee, \h4af1, \h4b2a, \h449c>>,
      <<\hbc86, \h8ca0, \h2e8a, \h6833>>, <<\h3fd5, \h190e, \hcf68, \ha77a>>, <<\h3c7b, \h3571, \h55ee, \hf0f3>>,
      <<\h3fee, \h3614, \hb680, \hd6a5>>, <<\hbc72, \h7793, \haa01, \h5237>>, <<\h3fd5, \h91bc, \h9fa2, \hf597>>,
      <<\h3c67, \hc74b, \hac3f, \he0cb>>, <<\h3fee, \h20bf, \h49ac, \hd6c1>>, <<\hbc56, \h60ae, \hc7ef, \h636c>>,
      <<\h3fd6, \h0a14, \h2907, \h8775>>, <<\h3c5b, \h1fd8, \h0ba8, \h9133>>, <<\h3fee, \h0af1, \h5a03, \hdbce>>,
      <<\h3c5f, \he8e7, \h0277, \h1ae6>>, <<\h3fd6, \h8213, \h8a38, \hd7f7>>, <<\hbc7d, \h8892, \h0244, \h4aad>>,
      <<\h3fed, \hf4ab, \h3ebd, \h875e>>, <<\hbc8e, \h2d8a, \h7e67, \h36c4>>, <<\h3fd6, \hf9b8, \he33a, \h0255>>,
      <<\h3c74, \h2bc1, \h4ee9, \hda0d>>, <<\h3fed, \hdded, \h50f2, \h28d6>>, <<\hbc6e, \h80c8, \hd42b, \ha2bf>>,
      <<\h3fd7, \h7102, \h5576, \h4214>>, <<\hbc66, \head7, \h314b, \hb6ce>>, <<\h3fed, \hc6b7, \heb99, \h5912>>,
      <<\h3c54, \hb364, \h776d, \hcd35>>, <<\h3fd7, \he7ee, \h03c8, \h6d4e>>, <<\hbc7b, \h63bc, \hdabf, \h5af2>>,
      <<\h3fed, \haf0b, \h6b88, \h8e83>>, <<\h3c8a, \h249e, \h2b5e, \h5cea>>, <<\h3fd8, \h5e7a, \h1282, \h6949>>,
      <<\h3c78, \ha40e, \h9b5f, \hace0>>, <<\h3fed, \h96e8, \h2f71, \ha9dc>>, <<\h3c8f, \hf61b, \hd5d2, \h039d>>,
      <<\h3fd8, \hd4a4, \ha774, \h992f>>, <<\h3c74, \h4a02, \hea76, \h6326>>, <<\h3fed, \h7e4e, \h97e1, \h7b4a>>,
      <<\hbc63, \hb770, \h352b, \hed94>>, <<\h3fd9, \h4a6b, \he9f5, \h46c5>>, <<\hbc76, \h9ce1, \h3e68, \h3f58>>,
      <<\h3fed, \h653f, \h073e, \h4040>>, <<\hbc87, \h6236, \h434b, \hec37>>, <<\h3fd9, \hbfce, \h02e8, \h0510>>,
      <<\h3c70, \h9e39, \ha320, \hb0a4>>, <<\h3fed, \h4bb9, \he1c6, \h19e0>>, <<\h3c8f, \h34bb, \h7785, \h8f61>>,
      <<\h3fda, \h34c9, \h1cc5, \h0cca>>, <<\hbc5a, \h310e, \h3b50, \hcecd>>, <<\h3fed, \h31bf, \h8d8d, \h7c06>>,
      <<\h3c7e, \h60dd, \h3089, \hcbdd>>, <<\h3fda, \ha95b, \h63a0, \h9277>>, <<\hbc66, \h293e, \hb13c, \h0381>>,
      <<\h3fed, \h1750, \h727d, \h94f0>>, <<\h3c80, \hd52b, \h1ec1, \ha48e>>, <<\h3fdb, \h1d83, \h0532, \h1617>>,
      <<\hbc7a, \he242, \hcb99, \hf519>>, <<\h3fec, \hfc6c, \hfa52, \had9f>>, <<\h3c88, \hb5b5, \h508f, \h2a0d>>,
      <<\h3fdb, \h913e, \h30db, \hac43>>, <<\hbc7e, \h38ad, \h2f6c, \h3ff1>>, <<\h3fec, \he115, \h909a, \h82e5>>,
      <<\h3c81, \hf139, \hbb31, \h109a>>, <<\h3fdc, \h048b, \h17b1, \h40a3>>, <<\h3c61, \h9fe6, \h757e, \h9fa7>>,
      <<\h3fec, \hc54a, \ha2b2, \h972e>>, <<\h3c64, \hee16, \h2ba8, \h3a98>>, <<\h3fdc, \h7767, \hec7f, \hd19e>>,
      <<\hbc5e, \hb14d, \h1a3d, \h5826>>, <<\h3fec, \ha90c, \h9fc6, \h7d0b>>, <<\hbc64, \h6a81, \h485e, \h3462>>,
      <<\h3fdc, \he9d2, \he3d4, \ha51f>>, <<\hbc62, \hfc8a, \h12da, \he298>>, <<\h3fec, \h8c5b, \hf8ce, \h1a84>>,
      <<\h3c7a, \hb3d1, \ha159, \h0123>>, <<\h3fdd, \h5bca, \h3404, \h7661>>, <<\h3c72, \h8a44, \ha75f, \hc29c>>,
      <<\h3fec, \h6f39, \h208b, \he53b>>, <<\hbc87, \h41db, \hfbaa, \hdb42>>, <<\h3fdd, \hcd4c, \h1532, \h9c9a>>,
      <<\h3c70, \hd4c6, \he171, \hfd9a>>, <<\h3fec, \h51a4, \h8b8b, \h175e>>, <<\hbc61, \hbbb4, \h3b9a, \ha880>>,
      <<\h3fde, \h3e56, \hc158, \h2a69>>, <<\hbc50, \ha482, \h1099, \hf88f>>, <<\h3fec, \h339e, \hb01d, \hdd81>>,
      <<\hbc8c, \haaf5, \hee82, \hc5c0>>, <<\h3fde, \haee8, \h744b, \h05f0>>, <<\hbc57, \h89b4, \h3c9b, \h027d>>,
      <<\h3fec, \h1528, \h065b, \h7d50>>, <<\hbc88, \h9211, \h1312, \he828>>, <<\h3fdf, \h1eff, \h6bc4, \hf97b>>,
      <<\h3c71, \h7212, \hf8a7, \h525c>>, <<\h3feb, \hf641, \h081e, \h7536>>, <<\h3c8b, \h7bd7, \h1628, \ha9a1>>,
      <<\h3fdf, \h8e99, \he76a, \hbc97>>, <<\h3c59, \hd950, \haf2d, \h00a3>>, <<\h3feb, \hd6ea, \h3102, \h94f5>>,
      <<\h3c73, \h1bbc, \hc88c, \h109d>>, <<\h3fdf, \hfdb6, \h28d2, \hf57a>>, <<\h3c6f, \h4a99, \h2e90, \h5b6a>>,
      <<\h3feb, \hb723, \hfe63, \h0f32>>, <<\h3c77, \h2bd2, \h452d, \h0a39>>, <<\h3fe0, \h3629, \h39c6, \h9955>>,
      <<\hbc82, \hd8cd, \h7839, \h7b01>>, <<\h3feb, \h96ee, \hef58, \h840e>>, <<\h3c54, \h5a3c, \hc78f, \hade0>>,
      <<\h3fe0, \h6d36, \h8694, \h6e5b>>, <<\h3c83, \hf5ae, \h4538, \hff1b>>, <<\h3feb, \h764b, \h84b7, \h04c2>>,
      <<\hbc8f, \h5848, \hc21b, \h389b>>, <<\h3fe0, \ha402, \h1e9e, \h1001>>, <<\hbc86, \hf643, \ha139, \h14f6>>,
      <<\h3feb, \h553a, \h410c, \h104e>>, <<\h3c58, \hff79, \h4702, \h7a16>>, <<\h3fe0, \hda8b, \h26b5, \h672e>>,
      <<\hbc8a, \h58de, \hf0be, \he909>>, <<\h3feb, \h33bb, \ha89c, \h8948>>, <<\h3c8e, \ha6a5, \h1d1f, \h6ca9>>,
      <<\h3fe1, \h10d0, \hc4b6, \h9c3b>>, <<\h3c8d, \h9189, \h9880, \h9981>>, <<\h3feb, \h11d0, \h4162, \ha4c6>>,
      <<\h3c71, \hdd56, \h1efb, \hc0c2>>, <<\h3fe1, \h46d2, \h1f8b, \h7f82>>, <<\h3c7b, \hf953, \h5e27, \h39a8>>,
      <<\h3fea, \hef78, \h930b, \hd275>>, <<\hbc7f, \h8362, \h7974, \h6f94>>, <<\h3fe1, \h7c8e, \h5f2e, \hedb0>>,
      <<\h3c63, \h5e57, \h102e, \h2488>>, <<\h3fea, \hccb5, \h26f6, \h9de5>>, <<\h3c88, \hfb6a, \h8dd6, \hb6cc>>,
      <<\h3fe1, \hb204, \hacb0, \h2fdd>>, <<\hbc5f, \h190c, \h70cb, \hb5ff>>, <<\h3fea, \ha986, \h8830, \h8913>>,
      <<\hbc0b, \h83d6, \h07cd, \h5070>>, <<\h3fe1, \he734, \h3236, \h574c>>, <<\h3c72, \h2a3f, \ha4f4, \h1d5a>>,
      <<\h3fea, \h85ed, \h4373, \he02d>>, <<\h3c69, \hbe06, \h385e, \hc792>>, <<\h3fe2, \h1c1c, \h1b03, \h94cf>>,
      <<\h3c5e, \h5b32, \h4b23, \haa31>>, <<\h3fea, \h61e9, \he725, \h86af>>, <<\h3c85, \h8330, \he2fd, \h453f>>,
      <<\h3fe2, \h50bb, \h9378, \h8bbb>>, <<\h3c7e, \ha3d0, \h2457, \hbcce>>, <<\h3fea, \h3d7d, \h0352, \hbdcf>>,
      <<\hbc86, \h8dba, \heca1, \h9669>>, <<\h3fe2, \h8511, \hc917, \ha067>>, <<\hbc80, \h1df1, \hd9a1, \h6b70>>,
      <<\h3fea, \h18a7, \h29ae, \he445>>, <<\h3c39, \h5e25, \h736c, \h0358>>, <<\h3fe2, \hb91d, \hea88, \h421e>>,
      <<\hbc8f, \ha371, \hdb21, \h6ab0>>, <<\h3fe9, \hf368, \hed91, \h2f85>>, <<\hbc81, \hd200, \hc579, \h1606>>,
      <<\h3fe2, \hecdf, \h279a, \h3082>>, <<\h3c8d, \h3557, \he0e7, \he37e>>, <<\h3fe9, \hcdc2, \he3f2, \h5e5c>>,
      <<\h3c83, \hf991, \h1299, \h3f62>>, <<\h3fe3, \h2054, \hb148, \hbc4f>>, <<\h3c8f, \h6b42, \h095a, \h135b>>,
      <<\h3fe9, \ha7b5, \ha36a, \h6514>>, <<\h3c87, \h22cf, \hcc9f, \ha7a9>>, <<\h3fe3, \h537d, \hb9be, \h0367>>,
      <<\h3c6b, \h327e, \h7af0, \h40f0>>, <<\h3fe9, \h8141, \hc42e, \h1310>>, <<\h3c8d, \h1ff8, \h0488, \hf08d>>,
      <<\h3fe3, \h8659, \h7456, \h282b>>, <<\hbc71, \h0fad, \ha93b, \h07a8>>, <<\h3fe9, \h5a67, \he00c, \hb1fd>>,
      <<\hbc80, \hbefd, \ha21f, \h862d>>, <<\h3fe3, \hb8e7, \h15a2, \h840a>>, <<\hbc79, \h7653, \ha7d2, \hf07b>>,
      <<\h3fe9, \h3328, \h926d, \h9e92>>, <<\hbc8b, \hb770, \h0360, \h0cda>>, <<\h3fe3, \heb25, \hd36c, \hd53a>>,
      <<\hbc5b, \he570, \he157, \h0fc0>>, <<\h3fe9, \h0b84, \h784d, \hdaf7>>, <<\hbc70, \hfeb1, \h0ab9, \h3b87>>,
      <<\h3fe4, \h1d14, \he4ba, \h6790>>, <<\h3c84, \h608f, \hd287, \hecf5>>, <<\h3fe8, \he37c, \h303d, \h9ad1>>,
      <<\hbc64, \h63a4, \hb53d, \h4bf8>>, <<\h3fe4, \h4eb3, \h81cf, \h386b>>, <<\hbc83, \hed6c, \h1e6a, \h5505>>,
      <<\h3fe8, \hbb10, \h5a5d, \hc900>>, <<\h3c88, \h63e0, \h3e94, \h74c1>>, <<\h3fe4, \h8000, \he431, \h159f>>,
      <<\hbc8b, \h194a, \h7463, \hed10>>, <<\h3fe8, \h9241, \h985d, \h871f>>, <<\h3c8c, \h48d9, \hc413, \hed84>>,
      <<\h3fe4, \hb0fc, \h46aa, \hb761>>, <<\h3c20, \hda05, \h738c, \hc59a>>, <<\h3fe8, \h6910, \h8d77, \ha6c6>>,
      <<\h3c73, \h38ff, \he2bf, \he9dd>>, <<\h3fe4, \he1a4, \he54e, \hd51b>>, <<\hbc8a, \h492f, \h89b7, \hc76a>>,
      <<\h3fe8, \h3f7d, \hde70, \h1ca0>>, <<\hbc41, \h52cf, \h609b, \hc6e8>>, <<\h3fe5, \h11f9, \hfd7b, \h351c>>,
      <<\hbc85, \hc0e8, \h61c4, \h8831>>, <<\h3fe8, \h158a, \h3191, \h6d5d>>, <<\hbc6d, \he8b9, \h0b82, \h28de>>,
      <<\h3fe5, \h41fa, \hcddb, \hb724>>, <<\h3c72, \h32c2, \h8520, \hd391>>, <<\h3fe7, \heb36, \h2eaa, \h1488>>,
      <<\h3c5a, \h1d65, \ha4a5, \h959f>>, <<\h3fe5, \h71a6, \h966d, \h59b3>>, <<\h3c5c, \h843b, \h4d0f, \hb198>>,
      <<\h3fe7, \hc082, \h7f09, \he54f>>, <<\hbc6c, \h73d6, \hd72a, \hee68>>, <<\h3fe5, \ha0fc, \h9881, \h3a12>>,
      <<\hbc8d, \h82e2, \hb7d4, \h227b>>, <<\h3fe7, \h956f, \hcd7f, \h6543>>, <<\hbc8a, \hb276, \he9d4, \h5ae4>>,
      <<\h3fe5, \hcffc, \h16bf, \h8f0d>>, <<\h3c89, \h6cb3, \h70eb, \h578a>>, <<\h3fe7, \h69fe, \hc655, \h211f>>,
      <<\hbc68, \h27d5, \hcf8c, \h68c5>>, <<\h3fe5, \hfea4, \h552a, \h9e57>>, <<\h3c80, \hb6ce, \hf7ee, \h20b7>>,
      <<\h3fe7, \h3e30, \h174e, \hfba1>>, <<\hbc65, \hd3ae, \h3d94, \had5f>>, <<\h3fe6, \h2cf4, \h9921, \hac79>>,
      <<\hbc8e, \hdd98, \h55b6, \h241a>>, <<\h3fe7, \h1204, \h6fa7, \h7678>>, <<\h3c84, \h25b0, \ha502, \h9c81>>,
      <<\h3fe6, \h5aec, \h2963, \he755>>, <<\h3c81, \h26f9, \h6b71, \h053c>>, <<\h3fe6, \he57c, \h800c, \hf55e>>,
      <<\h3c86, \h0286, \hdedb, \hd0a6>>, <<\h3fe6, \h888a, \h4e13, \h4b2f>>, <<\hbc86, \hb7d3, \h7644, \hd5e6>>,
      <<\h3fe6, \hb898, \hfa9e, \hfb5d>>, <<\h3c71, \h5ac7, \h86cc, \hf4b2>>, <<\h3fe6, \hb5ce, \h50b7, \h821a>>,
      <<\hbc65, \hd515, \h8f70, \h2e0f>>, <<\h3fe6, \h8b5a, \h92eb, \h6253>>, <<\hbc89, \ha91a, \hd985, \hf89c>>,
      <<\h3fe6, \he2b7, \h7c40, \hbde1>>, <<\hbc70, \he729, \h857f, \had53>>, <<\h3fe6, \h5dc1, \hfdeb, \h8cba>>,
      <<\hbc59, \h7c1b, \h4733, \h7c77>>, <<\h3fe7, \h0f45, \h1d0a, \h8c40>>, <<\h3c69, \h7ede, \h3885, \h770d>>,
      <<\h3fe6, \h2fcf, \hf201, \h91c7>>, <<\h3c6d, \h9143, \h8957, \h56ef>>, <<\h3fe7, \h3b76, \h80de, \ha578>>,
      <<\hbc72, \h2483, \h06dc, \h12a2>>, <<\h3fe6, \h0185, \h26f5, \h63df>>, <<\h3c84, \h6ca5, \he0e4, \h32d0>>,
      <<\h3fe7, \h674a, \hf6f7, \hb524>>, <<\h3c7e, \h9d3f, \h94ac, \h84a8>>, <<\h3fe5, \hd2e2, \h55f1, \hf17a>>,
      <<\h3c80, \h3141, \h04c8, \h892b>>, <<\h3fe7, \h92c1, \hd004, \h1d52>>, <<\hbc8a, \hbf05, \heeb3, \h54eb>>,
      <<\h3fe5, \ha3e8, \h3982, \h4077>>, <<\h3c84, \h28aa, \h2759, \hbe62>>, <<\h3fe7, \hbdda, \h5e28, \hb3c2>>,
      <<\h3c4a, \hd119, \h7ccd, \h0393>>, <<\h3fe5, \h7497, \h8d8e, \h83f2>>, <<\h3c8f, \h4714, \haf28, \h2d23>>,
      <<\h3fe7, \he893, \hf503, \h7959>>, <<\h3c80, \heefb, \haa65, \h0c4c>>, <<\h3fe5, \h44f1, \h0f59, \h2ca5>>,
      <<\hbc8e, \h7ae8, \he6c7, \ha62f>>, <<\h3fe8, \h12ed, \he9ae, \h4ba4>>, <<\hbc87, \h830a, \hdf40, \h2dda>>,
      <<\h3fe5, \h14f5, \h7d7b, \hf3da>>, <<\h3c74, \h7a10, \h8073, \hc259>>>>

\* sn, ssn, cs and ccs of the entry k: j = 1 .. 4
TabAt(k, j) == WordsFloat(sincostab[4 * k + j])

\* the index of the entry for u = |x| + big: the low bits of u's fraction,
\* |x| * 128 rounded to an integer
TabIndex(u) == Limb(u.m, 1)

\* the polynomials of do_cos and do_sin in xx = x * x
SinPoly(xx) == Fused(xx, sn5, sn3)
CosPoly(xx) == Fused(xx, Fused(xx, cs6, cs4), cs2)

\* do_cos(x, dx): the cosine of x + dx, |x| below 0.8555
DoCosCor(s, c, k) ==
    Plus(Libm("TabAt", <<k, 3>>),
             Fused(NegFloat(s), Libm("TabAt", <<k, 1>>),
                      Fused(NegFloat(c), Libm("TabAt", <<k, 3>>),
                               Fused(NegFloat(s), Libm("TabAt", <<k, 2>>), Libm("TabAt", <<k, 4>>)))))

DoCosOf(x, xx, k) ==
    DoCosCor(Fused(Times(x, xx), Libm("SinPoly", <<xx>>), x), Times(xx, Libm("CosPoly", <<xx>>)), k)

DoCosAt(x, k) == DoCosOf(x, Times(x, x), k)

DoCosFrom(a, dx, u) ==
    DoCosAt(Plus(Minus(a, Minus(u, sincos_big)), dx), TabIndex(u))

do_cos(x, dx) ==
    DoCosFrom(AbsFloat(x), IF LessZero(x) THEN NegFloat(dx) ELSE dx,
              Plus(AbsFloat(x), sincos_big))

\* TAYLOR_SIN(xx, a, da)
TaylorPoly(xx) ==
    Fused(xx, Fused(xx, Fused(xx, Fused(xx, s5, s4), s3), s2), s1)

TaylorSin(xx, a, da) ==
    Plus(a, Fused(xx, Fused(TaylorPoly(xx), a, NegFloat(Times(da, cs2))), da))

\* do_sin(x, dx): the sine of x + dx, |x| below 0.8555
DoSinCor(s, c, k, a) ==
    CopySign(Plus(Libm("TabAt", <<k, 1>>),
                      Fused(s, Libm("TabAt", <<k, 3>>),
                               Fused(NegFloat(c), Libm("TabAt", <<k, 1>>),
                                        Fused(s, Libm("TabAt", <<k, 4>>), Libm("TabAt", <<k, 2>>))))),
             a)

DoSinOf(x, dx, xx, k, a) ==
    DoSinCor(Plus(x, Fused(Times(x, xx), Libm("SinPoly", <<xx>>), dx)),
             Fused(x, dx, Times(xx, Libm("CosPoly", <<xx>>))), k, a)

DoSinAt(x, dx, k, a) == DoSinOf(x, dx, Times(x, x), k, a)

DoSinFrom(x, dx, u, a) ==
    DoSinAt(Minus(x, Minus(u, sincos_big)), dx, TabIndex(u), a)

do_sin(a, da) ==
    IF FloatLess(AbsFloat(a), TaylorLimit) THEN TaylorSin(Times(a, a), a, da)
    ELSE DoSinFrom(AbsFloat(a), IF a.neg THEN NegFloat(da) ELSE da,
                   Plus(AbsFloat(a), sincos_big), a)

\* do_sincos(a, da, n): the sine of a + da turned by n quarter turns
do_sincos(a, da, n) ==
    IF n % 4 >= 2
    THEN NegFloat(IF n % 2 = 1 THEN Libm("do_cos", <<a, da>>) ELSE Libm("do_sin", <<a, da>>))
    ELSE IF n % 2 = 1 THEN Libm("do_cos", <<a, da>>) ELSE Libm("do_sin", <<a, da>>)

\* reduce_sincos(x): the quarter turns n of x, |x| below 105414336, and the
\* rest a + da
ReduceLow(xn, t2, db, b, n) ==
    [n |-> n, a |-> b,
     da |-> Plus(db, Fused(NegFloat(xn), pp4, Minus(t2, b)))]

ReduceMid(xn, y, t2, n) ==
    ReduceLow(xn, t2, Fused(NegFloat(xn), pp3, Minus(y, t2)),
              Fused(NegFloat(xn), pp4, t2), n)

ReduceHigh(xn, y, n) == ReduceMid(xn, y, Fused(NegFloat(xn), pp3, y), n)

ReduceBy(x, xn, n) ==
    ReduceHigh(xn, Fused(NegFloat(xn), mp2, Fused(NegFloat(xn), mp1, x)), n)

ReduceAt(x, t) == ReduceBy(x, Minus(t, toint), Limb(t.m, 1) % 4)

reduce_sincos(x) == ReduceAt(x, Fused(x, hpinv, toint))

\* __branred(x): the quarter turns and the rest of a large x.  Each half of
\* x is multiplied by six pieces of 2 / pi, the integers are taken out of
\* the products and the fractions are summed
Gor(k, i) ==
    IF i = 0 THEN HighFloat(\h63f00000 - (k * 3) * 2 ^ 23)
    ELSE Times(Gor(k, i - 1), tm24)

BranredProduct(x, k, i) ==
    Times(Times(x, FloatOfInt(toverp[k + i + 1])), Gor(k, i))

BranredIndex(x) ==
    IF HighWord(x) \div 2 ^ 20 < 474 THEN 0 ELSE (HighWord(x) \div 2 ^ 20 - 450) \div 24

BranredProducts(x, k) == [i \in 1 .. 6 |-> BranredProduct(x, k, i - 1)]

\* (x + big) - big
RoundBy(x, b) == Minus(Plus(x, b), b)

HalfSum(b, bb, sum, s) == [b |-> b, bb |-> bb, sum |-> Minus(sum, s)]

HalfLow(t, bb, sum, b) ==
    HalfSum(b, Plus(Minus(t, b), bb), sum, RoundBy(sum, branred_big1))

HalfRest(t, bb, sum) == HalfLow(t, bb, sum, Plus(t, bb))

HalfInt(t, bb, sum, s) == HalfRest(Minus(t, s), bb, Plus(sum, s))

HalfTotal(r, sum, t) ==
    HalfInt(t,
            Plus(Plus(Plus(Plus(Plus(Minus(r[1], t), r[2]), r[3]),
                                       r[4]), r[5]), r[6]),
            sum, RoundBy(t, branred_big))

HalfFractions(r, sum) ==
    HalfTotal(r, sum,
              Plus(Plus(Plus(Plus(Plus(Plus(SignedZero(FALSE),
                                                                   r[6]), r[5]),
                                                   r[4]), r[3]), r[2]), r[1]))

HalfIntegers(r, i1, i2, i3) ==
    HalfFractions(<<Minus(r[1], i1), Minus(r[2], i2), Minus(r[3], i3),
                    r[4], r[5], r[6]>>,
                  Plus(Plus(Plus(SignedZero(FALSE), i1), i2), i3))

HalfOf(r) ==
    HalfIntegers(r, RoundBy(r[1], branred_big), RoundBy(r[2], branred_big),
                 RoundBy(r[3], branred_big))

BranredHalf(x) == HalfOf(BranredProducts(x, BranredIndex(x)))

BranredOut(sum, b, bb, s) ==
    [n |-> IntOfFloat(sum) % 4, a |-> s, da |-> Plus(Minus(b, s), bb)]

BranredSum(sum, b, bb) == BranredOut(sum, b, bb, Plus(b, bb))

BranredTimes(sum, s, t, t1, t2, b) ==
    BranredSum(sum, b,
               Plus(Plus(Times(t, hp0),
                                 Plus(Times(t2, branred_mp2), Times(s, hp1))),
                        Plus(Plus(Minus(Times(t1, mp1), b),
                                          Times(t1, branred_mp2)),
                                 Times(t2, mp1))))

BranredSplit(sum, s, t, t1) ==
    BranredTimes(sum, s, t, t1, Minus(s, t1), Times(s, hp0))

BranredHigh(sum, s, t, b) == BranredSplit(sum, s, t, Minus(b, Minus(b, s)))

BranredRest(h1, h2, sum, b, bb, s) ==
    BranredHigh(sum, s,
                Plus(Plus(Minus(b, s), bb), Plus(h1.bb, h2.bb)),
                Times(s, split))

BranredFolded(h1, h2, sum, b, bb) ==
    BranredRest(h1, h2, sum, b, bb,
                Plus(Plus(Plus(bb, h1.bb), h2.bb), b))

BranredFold(h1, h2, sum, b, bb) ==
    IF FloatLess(cs2, b)
    THEN Libm("BranredFolded", <<h1, h2, Plus(sum, FloatOfInt(1)), Minus(b, FloatOfInt(1)), bb>>)
    ELSE IF FloatLess(b, NegFloat(cs2))
    THEN Libm("BranredFolded", <<h1, h2, Minus(sum, FloatOfInt(1)), Plus(b, FloatOfInt(1)), bb>>)
    ELSE Libm("BranredFolded", <<h1, h2, sum, b, bb>>)

BranredBoth(h1, h2, b) ==
    BranredFold(h1, h2, Plus(h2.sum, h1.sum), b,
                IF FloatLess(AbsFloat(h2.b), AbsFloat(h1.b))
                THEN Plus(Minus(h1.b, b), h2.b)
                ELSE Plus(Minus(h2.b, b), h1.b))

BranredHalves(h1, h2) == BranredBoth(h1, h2, Plus(h1.b, h2.b))

BranredParts(x, x1) == BranredHalves(Libm("BranredHalf", <<x1>>), Libm("BranredHalf", <<Minus(x, x1)>>))

BranredScaled(x, t) == BranredParts(x, Minus(t, Minus(t, x)))

BranredTimesSplit(x) == BranredScaled(x, Times(x, split))

branred(x) == BranredTimesSplit(Times(x, tm600))

\* do_sincos of a reduced argument, k more quarter turns
SinCosOf(r, k) == Libm("do_sincos", <<r.a, r.da, r.n + k>>)

\* the cosine of x near pi / 2: the sine of hp0 - |x| + hp1
CosByA(y, a) == Libm("do_sin", <<a, Plus(Minus(y, a), hp1)>>)
CosByY(y) == CosByA(y, Plus(y, hp1))

\* __cos(x) by the high word k of |x|
CosAt(x, k) ==
    IF k < \h3e400000 THEN FloatOfInt(1)
    ELSE IF k < \h3feb6000 THEN Libm("do_cos", <<x, SignedZero(FALSE)>>)
    ELSE IF k < \h400368fd THEN CosByY(Minus(hp0, AbsFloat(x)))
    ELSE IF k < \h419921fb THEN SinCosOf(Libm("reduce_sincos", <<x>>), 1)
    ELSE IF k < \h7ff00000 THEN SinCosOf(Libm("branred", <<x>>), 1)
    ELSE NaN

\* __sin(x) by the high word k of |x|
SinAt(x, k) ==
    IF k < \h3e500000 THEN x
    ELSE IF k < \h3feb6000 THEN Libm("do_sin", <<x, SignedZero(FALSE)>>)
    ELSE IF k < \h400368fd
    THEN CopySign(Libm("do_cos", <<Minus(hp0, AbsFloat(x)), hp1>>), x)
    ELSE IF k < \h419921fb THEN SinCosOf(Libm("reduce_sincos", <<x>>), 0)
    ELSE IF k < \h7ff00000 THEN SinCosOf(Libm("branred", <<x>>), 0)
    ELSE NaN

\* the call of the function f of the library with the arguments a; "cos" and
\* "sin" are __cos and __sin with the high word of the argument
Libm(f, a) ==
    CASE f = "AddFloat" -> AddFloat(a[1], a[2])
      [] f = "SubFloat" -> SubFloat(a[1], a[2])
      [] f = "MulFloat" -> MulFloat(a[1], a[2])
      [] f = "FmaFloat" -> FmaFloat(a[1], a[2], a[3])
      [] f = "TabAt" -> TabAt(a[1], a[2])
      [] f = "SinPoly" -> SinPoly(a[1])
      [] f = "CosPoly" -> CosPoly(a[1])
      [] f = "do_cos" -> do_cos(a[1], a[2])
      [] f = "do_sin" -> do_sin(a[1], a[2])
      [] f = "do_sincos" -> do_sincos(a[1], a[2], a[3])
      [] f = "reduce_sincos" -> reduce_sincos(a[1])
      [] f = "BranredHalf" -> BranredHalf(a[1])
      [] f = "BranredFolded" -> BranredFolded(a[1], a[2], a[3], a[4], a[5])
      [] f = "branred" -> branred(a[1])
      [] f = "cos" -> CosAt(a[1], a[2])
      [] f = "sin" -> SinAt(a[1], a[2])

\* math.cos(x); of an infinity it raises ValueError
CosFloat(x) == Libm("cos", <<x, HighWord(x)>>)

\* math.sin(x); of an infinity it raises ValueError
SinFloat(x) == Libm("sin", <<x, HighWord(x)>>)

\* math.pi, and the factors pi / 180 of math.radians and 180 / pi of
\* math.degrees
PiFloat == WordsFloat(<<\h4009, \h21fb, \h5444, \h2d18>>)
RadFloat == DivFloat(PiFloat, FloatOfInt(180))
DegFloat == DivFloat(FloatOfInt(180), PiFloat)

\* math.radians(x) and math.degrees(x)
radians(x) == MulFloat(x, RadFloat)
degrees(x) == MulFloat(x, DegFloat)

(***************************************************************************)
(* utils/units.py: interpolate_circle                                      *)
(***************************************************************************)
\* n_points of interpolate_circle
n_points == 64

\* "angle = 2 * math.pi * i / n_points"
Angle(i) ==
    DivFloat(MulFloat(MulFloat(FloatOfInt(2), PiFloat), FloatOfInt(i)), FloatOfInt(n_points))

\* math.cos(angle) and math.sin(angle) of the angles i = 0 .. n_points
CosAngles == [i \in 0 .. n_points |-> CosFloat(Angle(i))]
SinAngles == [i \in 0 .. n_points |-> SinFloat(Angle(i))]

\* the i-th point (lon, lat) of interpolate_circle, lat0 and lon0 in radians
\* and c = math.cos(lat0); obj tells the tuples of a list apart: two
\* elements of the same obj are one object
CirclePoint(lat0, lon0, radius_deg, c, i) ==
    [lon |-> degrees(AddFloat(lon0, radians(DivFloat(MulFloat(radius_deg, SinAngles[i]), c)))),
     lat |-> degrees(AddFloat(lat0, radians(MulFloat(radius_deg, CosAngles[i])))),
     obj |-> i + 1]

CirclePoints(lat0, lon0, radius_deg, c) ==
    [k \in 1 .. n_points + 1 |-> CirclePoint(lat0, lon0, radius_deg, c, k - 1)]

\* TRUE when interpolate_circle raises: math.cos of an infinite latitude is
\* a ValueError
CircleRaises(center) == radians(center[1]).inf /\ ~IsNaN(radians(center[1]))

\* interpolate_circle(center, radius_nm): n_points + 1 points, center =
\* (lat, lon) in degrees and the radius in nautical miles
interpolate_circle(center, radius_nm) ==
    CirclePoints(radians(center[1]), radians(center[2]),
                 DivFloat(radius_nm, FloatOfInt(60)), CosFloat(radians(center[1])))

(***************************************************************************)
(* utils/naviter/openair.py: parse_openair and openair_to_geojson          *)
(***************************************************************************)
\* prefix_map of _process_property_line, in its order
prefix_map == <<<<"AC", "class">>, <<"AN", "name">>, <<"AY", "type">>, <<"AF", "frequency">>,
                <<"AG", "station">>, <<"AL", "lower_limit">>, <<"AH", "upper_limit">>>>

PropNames == {prefix_map[k][2] : k \in 1 .. Len(prefix_map)}

\* the prefixes of prefix_map that line starts with
PrefixHits(line) == {k \in 1 .. Len(prefix_map) : StartsWith(line, prefix_map[k][1])}

\* line[n:].strip()
RestOf(line, n) == Strip(Sub(line, n + 1, Len(line)))

\* {"properties": {}, "geometry": []}: a property that is not set is None,
\* and so are the keys "circle" and "activation_times" while they are absent
NewAirspace ==
    [properties       |-> [p \in PropNames |-> None],
     geometry         |-> <<>>,
     circle           |-> None,
     activation_times |-> None]

\* the local variables of parse_openair before its first line
AirStart ==
    [current          |-> NewAirspace,
     coords           |-> <<>>,
     aa_times         |-> <<>>,
     circle_center    |-> None,
     circle_radius_nm |-> None,
     airspaces        |-> <<>>]

\* the dict that _save_current_airspace appends
SavedAirspace(st) ==
    [st.current EXCEPT
        !.geometry = IF st.coords # <<>> THEN st.coords ELSE @,
        !.circle = IF st.coords = <<>> /\ ~IsNone(st.circle_center)
                      /\ ~IsNone(st.circle_radius_nm)
                   THEN Some(<<Get(st.circle_center), Get(st.circle_radius_nm)>>)
                   ELSE @,
        !.activation_times = IF st.aa_times # <<>> THEN Some(st.aa_times) ELSE @]

_save_current_airspace(st) ==
    [st EXCEPT
        !.airspaces = IF st.coords # <<>> \/ ~IsNone(st.circle_center)
                      THEN Append(@, SavedAirspace(st)) ELSE @,
        !.coords = <<>>,
        !.aa_times = <<>>,
        !.circle_center = None,
        !.circle_radius_nm = None]

_process_property_line(line, st) ==
    IF PrefixHits(line) = {} THEN st
    ELSE [st EXCEPT !.current.properties[prefix_map[SetMin(PrefixHits(line))][2]] =
                        Some(RestOf(line, 3))]

\* the results of parse_openair_latlon as the two parsers keep them: the
\* centre (lat, lon), and the k-th tuple (lon, lat) appended to coords
CenterOf(ll) == <<ll.lat, ll.lon>>
VertexOf(ll, k) == [lon |-> ll.lon, lat |-> ll.lat, obj |-> k]

SetRadius(st, radius_nm) ==
    IF ~IsNone(st.circle_center) /\ ~IsNone(radius_nm)
    THEN [st EXCEPT !.circle_radius_nm = radius_nm] ELSE st

\* TRUE when _process_coordinate_line raises ValueError on the line
CoordinateLineRaises(line) ==
    IF StartsWith(line, "AA") THEN FALSE
    ELSE IF StartsWith(line, "V X=") THEN ~parse_openair_latlon(RestOf(line, 4)).ok
    ELSE IF StartsWith(line, "DP") THEN ~parse_openair_latlon(RestOf(line, 3)).ok
    ELSE FALSE

_process_coordinate_line(line, st) ==
    IF StartsWith(line, "AA") THEN [st EXCEPT !.aa_times = Append(@, RestOf(line, 3))]
    ELSE IF StartsWith(line, "V X=")
    THEN [st EXCEPT !.circle_center = Some(CenterOf(parse_openair_latlon(RestOf(line, 4))))]
    ELSE IF StartsWith(line, "DP")
    THEN [st EXCEPT !.coords = Append(@, VertexOf(parse_openair_latlon(RestOf(line, 3)),
                                                   Len(@) + 1))]
    ELSE IF StartsWith(line, "DC") THEN SetRadius(st, FloatOf(RestOf(line, 3)))
    ELSE st

_process_openair_line(line, st) ==
    IF PrefixHits(line) # {} THEN _process_property_line(line, st)
    ELSE _process_coordinate_line(line, st)

\* TRUE when the loop of parse_openair skips the line
AirSkips(line) == line = "" \/ StartsWith(line, "*")

\* TRUE when the body of the loop of parse_openair raises on raw_line
AirLineRaises(raw_line) ==
    /\ ~AirSkips(Strip(raw_line))
    /\ PrefixHits(Strip(raw_line)) = {}
    /\ CoordinateLineRaises(Strip(raw_line))

\* the state at an "AC" line before the line is processed
AirOpen(line, st) ==
    IF StartsWith(line, "AC")
    THEN [_save_current_airspace(st) EXCEPT !.current = NewAirspace]
    ELSE st

\* one pass of the loop of parse_openair over raw_line
AirLine(raw_line, st) ==
    IF AirSkips(Strip(raw_line)) THEN st
    ELSE _process_openair_line(Strip(raw_line), AirOpen(Strip(raw_line), st))

(***************************************************************************)
(* utils/units.py: parse_openair                                           *)
(***************************************************************************)
\* the local variables of parse_openair of utils/units.py before its first
\* line: current = {} is None here
UnitsStart ==
    [current          |-> None,
     coords           |-> <<>>,
     aa_times         |-> <<>>,
     circle_center    |-> None,
     circle_radius_nm |-> None,
     airspaces        |-> <<>>,
     raised           |-> FALSE]

\* the dict appended under "if current and (coords or circle_center)"
UnitsSaved(st) == SavedAirspace([st EXCEPT !.current = Get(st.current)])

\* "if current and (coords or circle_center)": the airspace is appended and
\* the accumulators are reset, both or neither
UnitsSave(st) ==
    IF ~IsNone(st.current) /\ (st.coords # <<>> \/ ~IsNone(st.circle_center))
    THEN [st EXCEPT !.airspaces = Append(@, UnitsSaved(st)),
                    !.coords = <<>>,
                    !.aa_times = <<>>,
                    !.circle_center = None,
                    !.circle_radius_nm = None]
    ELSE st

\* current["properties"][prop] = line[3:].strip(); KeyError while current is {}
UnitsProperty(line, st) ==
    IF IsNone(st.current) THEN [st EXCEPT !.raised = TRUE]
    ELSE [st EXCEPT !.current =
              Some([Get(@) EXCEPT !.properties[prefix_map[SetMin(PrefixHits(line))][2]] =
                                      Some(RestOf(line, 3))])]

\* "circle_center = parse_openair_latlon(center_str)" with its outcome ll
UnitsCenter(st, ll) ==
    IF ~ll.ok THEN [st EXCEPT !.raised = TRUE]
    ELSE [st EXCEPT !.circle_center = Some(CenterOf(ll))]

\* "lat, lon = parse_openair_latlon(latlon)" with its outcome ll
UnitsVertex(st, ll) ==
    IF ~ll.ok THEN [st EXCEPT !.raised = TRUE]
    ELSE [st EXCEPT !.coords = Append(@, VertexOf(ll, Len(@) + 1))]

\* the branches of the loop for a line that is neither blank nor a comment
UnitsBranch(line, st) ==
    IF StartsWith(line, "AC")
    THEN [UnitsSave(st) EXCEPT
             !.current = Some([NewAirspace EXCEPT !.properties["class"] =
                                                      Some(RestOf(line, 3))])]
    ELSE IF PrefixHits(line) # {} THEN UnitsProperty(line, st)
    ELSE IF StartsWith(line, "AA") THEN [st EXCEPT !.aa_times = Append(@, RestOf(line, 3))]
    ELSE IF StartsWith(line, "V X=")
    THEN UnitsCenter(st, parse_openair_latlon(RestOf(line, 5)))
    ELSE IF StartsWith(line, "DP") THEN UnitsVertex(st, parse_openair_latlon(RestOf(line, 3)))
    ELSE IF StartsWith(line, "DC") THEN SetRadius(st, FloatOf(RestOf(line, 3)))
    ELSE st

\* one pass of the loop over raw_line
UnitsLine(raw_line, st) ==
    IF AirSkips(Strip(raw_line)) THEN st ELSE UnitsBranch(Strip(raw_line), st)

RECURSIVE UnitsLinesFrom(_, _, _)
\* the loop from the i-th line on; a raise ends it
UnitsLinesFrom(lines, i, st) ==
    IF i > Len(lines) \/ st.raised THEN st
    ELSE UnitsLinesFrom(lines, i + 1, UnitsLine(lines[i], st))

\* after the loop: the final airspace, [raised, airspaces]
UnitsReturn(st) ==
    [raised |-> st.raised,
     airspaces |-> IF st.raised THEN <<>> ELSE UnitsSave(st).airspaces]

\* parse_openair(input_str) of utils/units.py
units_parse_openair(input_str) == UnitsReturn(UnitsLinesFrom(SplitLines(input_str), 1, UnitsStart))

\* a == b of two tuples (lon, lat) of a list: one object, or two of equal
\* numbers
TupleEq(a, b) == a.obj = b.obj \/ (FloatEq(a.lon, b.lon) /\ FloatEq(a.lat, b.lat))

\* the ring of a polygon given by DP points
PolygonRing_Open(coords) == coords

PolygonRing(coords) ==
    IF coords # <<>> /\ ~TupleEq(coords[1], coords[Len(coords)])
    THEN Append(coords, coords[1])
    ELSE coords

\* the ring of a circle
CircleRing_Open(circle_coords) == circle_coords

CircleRing(circle_coords) ==
    IF ~TupleEq(circle_coords[1], circle_coords[Len(circle_coords)])
    THEN Append(circle_coords, circle_coords[1])
    ELSE circle_coords

\* the features that openair_to_geojson makes of one airspace: none or one
FeaturesOf(asp) ==
    IF asp.geometry # <<>>
    THEN <<[type        |-> "Feature",
            geometry    |-> [type |-> "Polygon", coordinates |-> <<PolygonRing(asp.geometry)>>],
            properties  |-> asp.properties,
            activation_times |-> asp.activation_times]>>
    ELSE IF ~IsNone(asp.circle)
    THEN <<[type        |-> "Feature",
            geometry    |-> [type |-> "Polygon",
                             coordinates |-> <<CircleRing(interpolate_circle(
                                                   Get(asp.circle)[1], Get(asp.circle)[2]))>>],
            properties  |-> asp.properties,
            activation_times |-> asp.activation_times]>>
    ELSE <<>>

\* TRUE when the loop of openair_to_geojson raises on the airspace
FeatureRaises(asp) ==
    asp.geometry = <<>> /\ ~IsNone(asp.circle) /\ CircleRaises(Get(asp.circle)[1])

RECURSIVE FeaturesFrom(_, _)
\* the features of airspaces[k ..]
FeaturesFrom(airspaces, k) ==
    IF k > Len(airspaces) THEN <<>>
    ELSE FeaturesOf(airspaces[k]) \o FeaturesFrom(airspaces, k + 1)

\* the FeatureCollection of openair_to_geojson, before json.dumps: None
\* when the call raises
FeatureCollection(airspaces) ==
    IF \E k \in 1 .. Len(airspaces) : FeatureRaises(airspaces[k]) THEN None
    ELSE Some([type |-> "FeatureCollection", features |-> FeaturesFrom(airspaces, 1)])

(***************************************************************************)
(* State                                                                   *)
(***************************************************************************)
VARIABLES
    \* one call of update_airports_in_cup
    rin,              \* its arguments, and the directory it runs against
    rpc,              \* where the call is
    run,              \* cup_file, seen_ids, data_report, bucket counts, next _id
    airports_in_cup,  \* the _ids of cup_file.airports() taken after loading
    points,           \* apt.get_point() of each of them
    batch,            \* the number of the batch being processed, from 1
    response,         \* the rows of the last nearest_bulk query
    counts,           \* the counts of the report
    result,           \* what the call returned, None before and on a raise
    queries,          \* the directory queries issued so far, with their answers
    \* one CupFile through loads, dumps, loads of the dumped text and dumps
    cdata,            \* what the last call of load or loads was handed
    content,          \* the local content of that call, "" before it is set
    cf,               \* the CupFile load and loads ran on
    cprev,            \* the CupFile as it was before the last of these calls
    cpc,              \* where the round trip is
    d1,               \* dumps() of cf
    cf2,              \* the CupFile that loaded d1
    d2,               \* dumps() of cf2
    \* one CupWaypoint through its constructor and assignments to its attributes
    wpt,              \* the object, None before the constructor ran
    wprev,            \* the object as it was before the last operation
    wop,              \* the last operation: kind, attribute, value, raised
    wn,               \* the number of assignments made
    \* one distance through format_distance and convert_distance_to_m_and_og_unit
    dd,               \* the distance in metres
    du,               \* the unit it is formatted in
    dtext,            \* format_distance(dd, du)
    dback,            \* convert_distance_to_m_and_og_unit(dtext)
    dpc,              \* where the round trip is
    \* one OpenAir text through parse_openair, line by line, and openair_to_geojson
    otext,            \* the text
    oi,               \* the number of lines processed
    ost,              \* current, coords, aa_times, circle, airspaces of the parser
    ofc,              \* the features of the FeatureCollection, None before
    opc,              \* where the conversion is
    og,               \* the FeatureCollection the text was written from, or None
    ures,             \* what parse_openair of utils/units.py made of the text
    \* one line through parse_line_to_lon_lat_any
    lin,              \* the line, and the coordinates it was written from
    lstep,            \* the parser that is tried next, or how the call ended
    lres,             \* the tuple returned, None before and on a raise
    \* UpdateCupFile: handle_upload and reset_state
    hin,              \* the upload, the switches, and how the calls it makes end
    hpc,              \* where the handler is
    hread,            \* the number of files the loop of the handler has read
    hdata,            \* the local data of the handler, None while it is unbound
    stage,            \* self.stage
    file_name,        \* self.file_name
    error_message,    \* self.error_message
    zip_file,         \* self._zip_file
    hlog,             \* what the calls made so far did
    \* one run of AirportUpdater
    tin,              \* the files of the source, the tasks that fail, the directory
    pending,          \* the futures that have not completed
    results,          \* the list run_in_threads collects
    oap_airports,     \* self.oap_airports, None before download_airports ended
    tdb,              \* the airports table
    removed,          \* removed_source_ids, None before _categorize_airports ran
    tpc               \* where the run is

reconVars == <<rin, rpc, run, airports_in_cup, points, batch, response, counts,
               result, queries>>
codecVars == <<cdata, content, cf, cprev, cpc, d1, cf2, d2>>
wptVars   == <<wpt, wprev, wop, wn>>
distVars  == <<dd, du, dtext, dback, dpc>>
airVars   == <<otext, oi, ost, ofc, opc, og, ures>>
lineVars  == <<lin, lstep, lres>>
upVars    == <<hin, hpc, hread, hdata, stage, file_name, error_message, zip_file, hlog>>
thrVars   == <<tin, pending, results, oap_airports, tdb, removed, tpc>>
lateVars  == <<lineVars, upVars, thrVars>>

vars == <<reconVars, codecVars, wptVars, distVars, airVars, lateVars>>

(***************************************************************************)
(* update_airports_in_cup, step by step                                    *)
(***************************************************************************)
RHeader == "name,lat,lon,elev,style\n"
RowA1  == "A1,4600.000N,01300.000E,500m,2\n"
RowW   == "W,4602.000N,01302.000E,,1\n"
RowA2  == "A2,4604.000N,01304.000E,1500ft,5\n"
RowA3  == "A3,4604.900N,01302.000E,,4\n"
RowA4  == "A4,4610.000N,01310.000E,,2\n"
RowA5  == "A5,4600.000N,00000.400E,,2\n"
RowBad == "Bad,9900.000N,01300.000E,,2\n"

\* the uploaded files of the model
ReconFiles ==
    {RHeader \o RowA1 \o RowW \o RowA2 \o RowA3 \o RowA4,
     RHeader \o RowA1,
     RHeader \o RowA1 \o RowBad,
     RHeader \o RowA5,
     RHeader \o RowA2 \o RowA3 \o RowA4,
     RHeader \o RowW}

\* (search_r, update_r, fix_location, delete_closed, add_new): every choice of
\* the flags, under the default radii and under an update radius above the
\* search radius
ReconSettings ==
    {<<r[1], r[2], fl, dc, an>> :
        r \in {<<5000, 2000>>, <<1000, 2000>>},
        fl \in BOOLEAN, dc \in BOOLEAN, an \in BOOLEAN}

\* the directories of the model
ReconDirs ==
    {{}, DOMAIN DirRecords, {"R2", "R3", "R6", "R7"}, {"R1"}, {"R2"}, {"R3"},
     {"R6", "R7"}, {"R1", "R2", "R4", "R5"}, {"R8"}, {"R9"}}

\* an airport 10' or more south of A1, on its meridian, far from every
\* airport of the directory
FillerRow(i) == "F" \o NatStr(i) \o ",4549." \o NatStr(501 + i) \o "N,01300.000E,,2\n"

RECURSIVE FillerRows(_, _)
\* the rows lo .. hi of them
FillerRows(lo, hi) ==
    IF lo > hi THEN ""
    ELSE IF lo = hi THEN FillerRow(lo)
    ELSE FillerRows(lo, (lo + hi) \div 2) \o FillerRows((lo + hi) \div 2 + 1, hi)

\* a file of two batches: A2, A1 and the airports that fill the first batch,
\* with a waypoint that is no airport among them, then A3 and A4
BigFile ==
    RHeader \o RowA2 \o RowW \o RowA1 \o FillerRows(1, 498) \o RowA3 \o RowA4

\* the settings and the directories the file of two batches is run under
BigSettings ==
    {<<5000, 2000, TRUE, dc, an>> : dc \in BOOLEAN, an \in BOOLEAN}

BigDirs == {DOMAIN DirRecords, {"R2", "R3", "R6", "R7"}}

\* the file is uploaded as bytes
ReconInput(f, s, d) ==
    [file |-> AsciiBytes(f), file_name |-> "in.cup", search_r |-> s[1], update_r |-> s[2],
     fix_location |-> s[3], delete_closed |-> s[4], add_new |-> s[5], dir |-> d]

ReconInputs ==
    {ReconInput(f, s, d) : f \in ReconFiles, s \in ReconSettings, d \in ReconDirs}
    \cup {ReconInput(BigFile, s, d) : s \in BigSettings, d \in BigDirs}

ZeroCounts ==
    [total_wpts_before |-> 0, total_apts_before |-> 0, total_wpts_after |-> 0,
     total_apts_after |-> 0, updated |-> 0, added |-> 0, deleted |-> 0,
     not_found |-> 0, not_updated |-> 0]

NewRun(cup_file, update_r, nextId) ==
    [cup_file |-> cup_file, seen_ids |-> <<>>, data_report |-> EmptyReport,
     buckets |-> [t \in Tresholds(update_r) |-> 0], nextId |-> nextId, raised |-> FALSE]

\* the three parts of the state before anything ran
ReconIdle ==
    /\ rpc = "init"
    /\ run = NewRun(NewCupFile(""), 2000, 1)
    /\ airports_in_cup = <<>>
    /\ points = <<>>
    /\ batch = 0
    /\ response = <<>>
    /\ counts = ZeroCounts
    /\ result = None
    /\ queries = <<>>

CodecIdle ==
    /\ content = ""
    /\ cf = NewCupFile("")
    /\ cprev = NewCupFile("")
    /\ cpc = "init"
    /\ d1 = ""
    /\ cf2 = NewCupFile("")
    /\ d2 = ""

NoOp == [kind |-> "none", attr |-> "", value |-> NoneV, lat |-> NoneV, lon |-> NoneV,
         raised |-> FALSE]

WptIdle ==
    /\ wpt = None
    /\ wprev = None
    /\ wop = NoOp
    /\ wn = 0

\* no distance is being converted
DistIdle ==
    /\ dd = SignedZero(FALSE)
    /\ du = "m"
    /\ dtext = ""
    /\ dback = [ok |-> FALSE, v |-> SignedZero(FALSE), unit |-> ""]
    /\ dpc = "init"

AirIdle ==
    /\ otext = ""
    /\ oi = 0
    /\ ost = AirStart
    /\ ofc = None
    /\ opc = "init"
    /\ og = None
    /\ ures = None

LineIdle ==
    /\ lin = [text |-> "", known |-> FALSE, lat |-> 0, lon |-> 0]
    /\ lstep = "dp"
    /\ lres = None

PRE_UPDATE == "pre-update"
RUNNING == "running"
DONE == "done"
ERROR == "error"

UpIdle ==
    /\ hin = [files |-> <<>>, recon |-> "returns",
              update_locations |-> TRUE, add_missing |-> TRUE, delete_closed |-> FALSE]
    /\ hpc = "init"
    /\ hread = 0
    /\ hdata = None
    /\ stage = PRE_UPDATE
    /\ file_name = ""
    /\ error_message = ""
    /\ zip_file = None
    /\ hlog = {}

ThrIdle ==
    /\ tin = [blobs |-> <<>>, fails |-> {}, existing |-> {}]
    /\ pending = {}
    /\ results = <<>>
    /\ oap_airports = None
    /\ tdb = {}
    /\ removed = None
    /\ tpc = "download"

LateIdle == LineIdle /\ UpIdle /\ ThrIdle

ReconInit ==
    /\ rin \in ReconInputs
    /\ ReconIdle
    /\ cdata = Str("")
    /\ CodecIdle
    /\ WptIdle
    /\ DistIdle
    /\ AirIdle
    /\ LateIdle

\* where the loop goes after batch k
AfterBatch(k) == IF k < NumChunks(airports_in_cup) THEN "nearest" ELSE "finish"

\* after "airports_in_cup = cup_file.airports()"
RSetup(l, apts) ==
    /\ run' = NewRun(l.cf, rin.update_r, l.nextId)
    /\ airports_in_cup' = [i \in 1 .. Len(apts) |-> apts[i].id]
    /\ points' = [i \in 1 .. Len(apts) |-> Point(apts[i].lon, apts[i].lat)]
    /\ counts' = [counts EXCEPT !.total_wpts_before = Len(l.cf.waypoints),
                                !.total_apts_before = Len(apts)]
    /\ batch' = IF Len(apts) = 0 THEN 0 ELSE 1
    /\ rpc' = IF Len(apts) = 0 THEN "finish" ELSE "nearest"

\* after "cup_file.loads(file)" with outcome l
RLoaded(l) ==
    IF l.raised
    THEN /\ rpc' = "raised"
         /\ UNCHANGED <<run, airports_in_cup, points, batch, counts>>
    ELSE RSetup(l, airports(l.cf))

\* Setup and "Load file": no check of the radii; a file that does not parse
\* raises out of the call
RStart ==
    /\ rpc = "init"
    /\ RLoaded(loads(NewCupFile(rin.file_name), rin.file, 1))
    /\ UNCHANGED <<rin, response, result, queries, codecVars, wptVars, distVars, airVars, lateVars>>

\* the arguments of the query that is due: the points of the batch for
\* get_nearest_airport_bulk, MultiPoint(point_chunk).bounds for get_apts_in_bbox
QueryPoints == IF rpc = "nearest" THEN Chunk(points, batch) ELSE <<>>
\* a variant of QueryBbox that takes the bounds of all the points of the file
QueryBbox_AllPoints == IF rpc = "bbox" THEN Bounds(points) ELSE <<>>
QueryBbox == IF rpc = "bbox" THEN Bounds(Chunk(points, batch)) ELSE <<>>

\* get_nearest_airport_bulk(point_chunk, search_r) answers
RNearest ==
    /\ rpc = "nearest"
    /\ LET rows == get_nearest_airport_bulk(rin.dir, QueryPoints, rin.search_r)
       IN /\ response' = rows
          /\ queries' = Append(queries, [kind |-> "nearest", batch |-> batch, ok |-> TRUE,
                                         treshold |-> rin.search_r,
                                         points |-> QueryPoints, bbox |-> <<>>,
                                         ids |-> [i \in 1 .. Len(rows) |-> rows[i].id]])
    /\ rpc' = "classify"
    /\ UNCHANGED <<rin, run, airports_in_cup, points, batch, counts, result,
                   codecVars, wptVars, distVars, airVars, lateVars>>

\* a variant of RQueryFails in which the failure is caught around the query:
\* the batch goes on with an empty answer
RQueryFails_Caught ==
    /\ rpc \in {"nearest", "bbox"}
    /\ queries' = Append(queries, [kind |-> rpc, batch |-> batch, ok |-> FALSE,
                                   treshold |-> rin.search_r,
                                   points |-> QueryPoints, bbox |-> QueryBbox,
                                   ids |-> <<>>])
    /\ IF rpc = "nearest"
       THEN /\ response' = <<>>
            /\ rpc' = "classify"
            /\ UNCHANGED batch
       ELSE /\ rpc' = AfterBatch(batch)
            /\ batch' = IF AfterBatch(batch) = "nearest" THEN batch + 1 ELSE batch
            /\ UNCHANGED response
    /\ UNCHANGED <<rin, run, airports_in_cup, points, counts, result, codecVars, wptVars, distVars, airVars, lateVars>>

\* a directory query raises (APIError, transport error): nothing in
\* update_airports_in_cup or in db.py catches it
RQueryFails ==
    /\ rpc \in {"nearest", "bbox"}
    /\ queries' = Append(queries, [kind |-> rpc, batch |-> batch, ok |-> FALSE,
                                   treshold |-> rin.search_r,
                                   points |-> QueryPoints, bbox |-> QueryBbox,
                                   ids |-> <<>>])
    /\ rpc' = "raised"
    /\ UNCHANGED <<rin, run, airports_in_cup, points, batch, response, counts, result,
                   codecVars, wptVars, distVars, airVars, lateVars>>

\* after the loop over the batch, st the state of the run it leaves
RClassified(st) ==
    /\ run' = st
    /\ rpc' = IF st.raised THEN "raised"
              ELSE IF rin.add_new THEN "bbox"
              ELSE AfterBatch(batch)
    /\ batch' = IF ~st.raised /\ ~rin.add_new /\ AfterBatch(batch) = "nearest"
                THEN batch + 1 ELSE batch

\* parse_annotated_airports and the loop over the batch
RClassify ==
    /\ rpc = "classify"
    /\ RClassified(ClassifyChunk(run, Chunk(airports_in_cup, batch),
                                 parse_annotated_airports(response), rin,
                                 1, Len(Chunk(airports_in_cup, batch))))
    /\ UNCHANGED <<rin, airports_in_cup, points, response, counts, result, queries,
                   codecVars, wptVars, distVars, airVars, lateVars>>

\* after "for apt in new_apts", st the state of the run it leaves
RAdded(bbox, new_apts, st) ==
    /\ run' = st
    /\ rpc' = IF st.raised THEN "raised" ELSE AfterBatch(batch)
    /\ batch' = IF ~st.raised /\ AfterBatch(batch) = "nearest" THEN batch + 1 ELSE batch
    /\ queries' = Append(queries, [kind |-> "bbox", batch |-> batch, ok |-> TRUE,
                                   treshold |-> rin.search_r,
                                   points |-> <<>>, bbox |-> bbox,
                                   ids |-> [i \in 1 .. Len(new_apts) |-> Some(new_apts[i])]])

\* the rows of get_apts_in_bbox are appended
RBboxRows(bbox, new_apts) == RAdded(bbox, new_apts, AddNew(run, new_apts, 1))

\* get_apts_in_bbox(bbox, seen_ids, exclude_apt_types) answers
RBboxOf(bbox) ==
    RBboxRows(bbox, get_apts_in_bbox(rin.dir, bbox, run.seen_ids, ExcludeAptTypes))

\* "if add_new": get_apts_in_bbox answers and its airports are appended
RBbox ==
    /\ rpc = "bbox"
    /\ RBboxOf(QueryBbox)
    /\ UNCHANGED <<rin, airports_in_cup, points, response, counts, result,
                   codecVars, wptVars, distVars, airVars, lateVars>>

\* the counts, the report and the return
RFinish ==
    /\ rpc = "finish"
    /\ LET c == [counts EXCEPT
                   !.updated = Len(run.data_report.updated),
                   !.added = Len(run.data_report.added),
                   !.deleted = Len(run.data_report.deleted),
                   !.not_found = Len(run.data_report.not_found),
                   !.not_updated = Len(run.data_report.not_updated),
                   !.total_wpts_after = Len(run.cup_file.waypoints),
                   !.total_apts_after = Len(airports(run.cup_file))]
       IN /\ counts' = c
          /\ result' = Some([cup_file |-> run.cup_file, counts |-> c,
                             buckets |-> run.buckets, data |-> run.data_report])
    /\ rpc' = "done"
    /\ UNCHANGED <<rin, run, airports_in_cup, points, batch, response, queries,
                   codecVars, wptVars, distVars, airVars, lateVars>>

ReconNext == RStart \/ RNearest \/ RQueryFails \/ RClassify \/ RBbox \/ RFinish

SpecRecon == ReconInit /\ [][ReconNext]_vars

(***************************************************************************)
(* CupFile: loads, dumps, loads of the dumped text, dumps                  *)
(***************************************************************************)
CHeader1 == "name,lat,lon,elev,style\n"
CHeader2 == "Longitude, LAT ,Name\n"

\* the data lines under CHeader1
CodecBodies1 ==
    {"",
     "A1,4600.000N,01300.000E,500m,2\n",
     "A1,4600.000N,01300.000E,100.25m,2\n",
     "A1,4600.000N,01300.000E,1500ft,5\nW,4602.000N,01302.000E,,1\n",
     "A1,4600.000N,01300.000E,100.35m,2\r\nW,\t4602.000N ,01302.000E,,1\r",
     "A1,4۳00.000N,01300.000E,100.00001m,۳\nB,4612.345S,17959.999W,-0ft,3\n",
     "A1,4600.000N,01300.000E,1e400m,2\n",
     "A1,4600.000N,01300.000E,1e6m,₃\n",
     "A1,4600.000N,01300.000E,500m,2\nBad,9900.000N,01300.000E,,2\n",
     "Bad,9900.000N,01300.000E,,2\nA1,4600.000N,01300.000E,500m,2\n",
     "A1,4600.000N,01300.000E,,2\nA1 ,4600.000N,01300.000E,,2\n",
     "A1,4600.000N,01300.000E,,2\nA1,4600.000N,01300.000E,,2\n",
     "A1,4600.000N,01300.000E,,2\nO1,4601.000N,01300.000E,,3\nW,4602.000N,01302.000E,,1\n"
        \o "G1,4603.000N,01300.000E,,4\nN,4604.000N,01300.000E,,\n",
     "\"a, \"\"b\"\"\",4600.000N,01300.000E,12.5m,\n#c,x\n\nB,4612.345S,17959.999W,1.25nm,3\n",
     "A1,4600.000N,01300.000E,,2\n\"A1\",4600.000N,01300.000E,,2\n",
     "\"A,1\",4600.000N,01300.000E,,2\nA,\"1\",4600.000N,01300.000E,,2\n",
     "\"a\nb\",4600.000N,01300.000E,,2\n"}

\* the data lines under CHeader2
CodecBodies2 ==
    {"01300.000E,4600.000N,A1\n",
     "01300.000E,4600.000N\n"}

\* what follows the data lines
CodecTails ==
    {"",
     "-----Related Tasks-----\n",
     "-----Related Tasks-----\nT1\nT2\n",
     "---related tasks---\nT1\n\n"}

\* the texts handed to loads
CodecInputs ==
    {"", "\n"}
        \cup {CHeader1 \o b \o t : b \in CodecBodies1, t \in CodecTails}
        \cup {CHeader2 \o b \o t : b \in CodecBodies2, t \in CodecTails}

CRowA == "A1,4600.000N,01300.000E,500m,2\n"
CRowB == "B,4612.345S,17959.999W,,3\n"
\* a row with the name "Zürich", and its bytes in UTF-8 read as cp1252
CRowZ == "Zürich,4600.000N,01300.000E,,2\n"
CRowZBytes == "ZÃ¼rich,4600.000N,01300.000E,,2\n"

\* the bytes objects handed to loads, with the answer of from_bytes: empty
\* bytes, ASCII text, and bytes that are not ASCII for which the library
\* finds nothing, one encoding, or a code page without chaos beside its
\* best match
CodecBytes ==
    {EmptyBytes,
     AsciiBytes("\n"),
     AsciiBytes(CHeader1 \o CRowA \o CRowB \o "-----Related Tasks-----\nT1\n"),
     AsciiBytes(CHeader1 \o CRowA \o "Bad,9900.000N,01300.000E,,2\n"),
     Bytes(CHeader1 \o CRowZBytes, <<>>),
     Bytes(CHeader1 \o CRowZBytes, <<CharsetMatch("utf_8", TRUE, CHeader1 \o CRowZ)>>),
     Bytes(CHeader1 \o CRowZBytes,
           <<CharsetMatch("utf_8", FALSE, CHeader1 \o CRowZ),
             CharsetMatch("cp1252", TRUE, CHeader1 \o CRowZBytes)>>),
     Bytes(CHeader1 \o CRowZBytes,
           <<CharsetMatch("utf_8", TRUE, CHeader1 \o CRowZ),
             CharsetMatch("CP1252", FALSE, CHeader1 \o CRowZBytes),
             CharsetMatch("ISO-8859-1", TRUE, CHeader1 \o CRowZBytes)>>)}

\* the paths handed to load: files that can and that cannot be read
CodecPaths ==
    {Path("empty.cup", FALSE, "", <<>>),
     Path("dir/sub/in.cup", TRUE, "", <<CharsetMatch("utf_8", TRUE, "")>>),
     Path("/tmp/a.cup", TRUE, CHeader1 \o CRowA,
          <<CharsetMatch("ascii", TRUE, CHeader1 \o CRowA)>>),
     Path("dir/", FALSE, "", <<>>)}

\* what the first call on a new CupFile is handed
CodecData ==
    {Str(t) : t \in CodecInputs} \cup CodecBytes \cup CodecPaths \cup {OtherData}

\* what a second call of loads on the same CupFile is handed
MoreData ==
    {Str(""), EmptyBytes, Str(CHeader1 \o CRowB), OtherData,
     Str(CHeader1 \o CRowA \o "Bad,9900.000N,01300.000E,,2\n")}

CodecInit ==
    /\ cdata \in CodecData
    /\ CodecIdle
    /\ rin = CHOOSE i \in ReconInputs : TRUE
    /\ ReconIdle
    /\ WptIdle
    /\ DistIdle
    /\ AirIdle
    /\ LateIdle

\* the local content after a call that was handed data, before it content
ContentAfter(data, before) ==
    IF data.kind = "other" \/ (data.kind = "path" /\ ~data.readable) THEN before
    ELSE ContentOf(data)

\* after a call of load or loads on cf with outcome l
CLoaded(l) ==
    /\ cf' = l.cf
    /\ cprev' = cf
    /\ content' = ContentAfter(cdata, content)
    /\ cpc' = IF l.raised THEN "raised" ELSE "loaded"

\* cf.loads(cdata) on a new CupFile
CLoads ==
    /\ cpc = "init"
    /\ cdata.kind # "path"
    /\ CLoaded(loads(cf, cdata, 1))
    /\ UNCHANGED <<cdata, d1, cf2, d2, reconVars, wptVars, distVars, airVars, lateVars>>

\* cf.load(cdata.path) on a new CupFile
CLoad ==
    /\ cpc = "init"
    /\ cdata.kind = "path"
    /\ CLoaded(load(cf, cdata, 1))
    /\ UNCHANGED <<cdata, d1, cf2, d2, reconVars, wptVars, distVars, airVars, lateVars>>

\* after a second call cf.loads(data) with outcome l
CLoadedMore(data, l) ==
    /\ cdata' = data
    /\ cf' = l.cf
    /\ cprev' = cf
    /\ content' = ContentAfter(data, content)
    /\ cpc' = IF l.raised THEN "more_raised" ELSE "more_loaded"

\* cf.loads(data) on the CupFile that has loaded before
CLoadsMore ==
    /\ cpc = "loaded"
    /\ \E data \in MoreData : CLoadedMore(data, loads(cf, data, Len(cf.waypoints) + 1))
    /\ UNCHANGED <<d1, cf2, d2, reconVars, wptVars, distVars, airVars, lateVars>>

\* d1 = cf.dumps()
CDumps ==
    /\ cpc = "loaded"
    /\ d1' = dumps(cf)
    /\ cpc' = "dumped"
    /\ UNCHANGED <<cdata, content, cf, cprev, cf2, d2, reconVars, wptVars, distVars, airVars, lateVars>>

\* after CupFile().loads(d1) with outcome l
CReloaded(l) ==
    /\ cf2' = l.cf
    /\ cpc' = IF l.raised THEN "reraised" ELSE "reloaded"

\* the dumped text is loaded into a new CupFile
CReload ==
    /\ cpc = "dumped"
    /\ CReloaded(loads(NewCupFile(""), Str(d1), 1))
    /\ UNCHANGED <<cdata, content, cf, cprev, d1, d2, reconVars, wptVars, distVars, airVars, lateVars>>

\* d2 = cf2.dumps()
CDumps2 ==
    /\ cpc = "reloaded"
    /\ d2' = dumps(cf2)
    /\ cpc' = "done"
    /\ UNCHANGED <<cdata, content, cf, cprev, d1, cf2, reconVars, wptVars, distVars, airVars, lateVars>>

CodecNext == CLoads \/ CLoad \/ CLoadsMore \/ CDumps \/ CReload \/ CDumps2

SpecCodec == CodecInit /\ [][CodecNext]_vars

(***************************************************************************)
(* CupWaypoint: the constructor and assignments to its attributes          *)
(***************************************************************************)
\* the largest number of assignments made to one object
MaxAssign == 3

\* the arguments of the constructor: name, and lat and lon as floats
WNames == {StrV(""), StrV("A")}
WLats  == {FloatV(-91 * DegUnit), FloatV(-90 * DegUnit), FloatV(0),
           FloatV(46 * DegUnit + 30000), FloatV(90 * DegUnit + 1)}
WLons  == {FloatV(-180 * DegUnit - 1), FloatV(0), FloatV(13 * DegUnit + 24000),
           FloatV(180 * DegUnit)}

\* the assignments "w.<attr> = <value>" of the model
WAssignments ==
    {<<"lat", FloatV(91 * DegUnit)>>, <<"lat", FloatV(47 * DegUnit)>>,
     <<"lat", IntV(45)>>, <<"lat", StrV("4530.000N")>>, <<"lat", StrV("north")>>, <<"lat", StrV("4۳03.000N")>>,
     <<"lon", FloatV(14 * DegUnit)>>, <<"lon", FloatV(181 * DegUnit)>>,
     <<"lon", StrV("east")>>,
     <<"name", StrV(" B ")>>, <<"name", StrV("\nB\r")>>, <<"name", OtherV>>,
     <<"code", OtherV>>,
     <<"country", StrV("at")>>, <<"country", StrV("xx")>>,
     <<"elev", StrV("100ft")>>, <<"elev", StrV("high")>>, <<"elev", StrV("-200000m")>>,
     <<"elev", StrV("100.00001m")>>, <<"elev", StrV(" ")>>,
     <<"style", IntV(2)>>, <<"style", IntV(99)>>, <<"style", StrV("²")>>,
     <<"style", StrV("۳")>>, <<"style", StrV("₃")>>,
     <<"rwdir", StrV("abc")>>, <<"rwdir", StrV("1_0")>>, <<"rwdir", StrV("12")>>,
     <<"rwdir", StrV("1৩")>>,
     <<"rwlen", OtherV>>, <<"rwlen", StrV("3.49999ft")>>, <<"rwwidth", StrV("20m")>>,
     <<"rwwidth", StrV("1e400m")>>,
     <<"freq", StrV("123.5")>>, <<"freq", OtherV>>, <<"freq", StrV("abc")>>,
     <<"freq", StrV("137.000")>>,
     <<"desc", OtherV>>, <<"desc", EmptyV>>, <<"userdata", OtherV>>, <<"pics", OtherV>>}

WptInit ==
    /\ WptIdle
    /\ rin = CHOOSE i \in ReconInputs : TRUE
    /\ ReconIdle
    /\ cdata = Str("")
    /\ CodecIdle
    /\ DistIdle
    /\ AirIdle
    /\ LateIdle

\* after CupWaypoint(name, lat, lon) with outcome r: a constructor that
\* raises leaves no object
WConstructed(name, lat, lon, r) ==
    /\ wpt' = IF r.raised THEN None ELSE Some(r.w)
    /\ wop' = [kind |-> "init", attr |-> "", value |-> name, lat |-> lat, lon |-> lon,
               raised |-> r.raised]

\* w = CupWaypoint(name, lat, lon)
WConstruct ==
    /\ wop.kind = "none"
    /\ \E name \in WNames, lat \in WLats, lon \in WLons :
          WConstructed(name, lat, lon, NewCupWaypoint(1, Kwargs(name, lat, lon)))
    /\ UNCHANGED <<wprev, wn, reconVars, codecVars, distVars, airVars, lateVars>>

\* after "w.<attr> = value" with outcome r
WAssigned(attr, value, r) ==
    /\ wpt' = Some(r.w)
    /\ wop' = [kind |-> "set", attr |-> attr, value |-> value, lat |-> NoneV,
               lon |-> NoneV, raised |-> r.raised]

\* w.<attr> = value
WAssign ==
    /\ ~IsNone(wpt)
    /\ wn < MaxAssign
    /\ \E a \in WAssignments : WAssigned(a[1], a[2], SetAttr(Get(wpt), a[1], a[2]))
    /\ wprev' = wpt
    /\ wn' = wn + 1
    /\ UNCHANGED <<reconVars, codecVars, distVars, airVars, lateVars>>

WptNext == WConstruct \/ WAssign

SpecWaypoint == WptInit /\ [][WptNext]_vars

(***************************************************************************)
(* helpers.py: a distance formatted in a unit and read back                *)
(***************************************************************************)
\* the distances of the model in metres, as the digits of a decimal number
\* and its power of ten: 0, 0.05, 0.3048, 0.5, 1, 2.5, 3.048, 9.26, 18.52,
\* 100.2, 100.25, 100.35, 100.45, 100.5, 152.4, 304.8, 500, 1000, 1609.344,
\* 1852, 8046.72, 9260 and 12345 m
DistDecimals ==
    {<<"0", 0>>, <<"5", -2>>, <<"3048", -4>>, <<"5", -1>>, <<"1", 0>>, <<"25", -1>>,
     <<"3048", -3>>, <<"926", -2>>, <<"1852", -2>>, <<"1002", -1>>, <<"10025", -2>>,
     <<"10035", -2>>, <<"10045", -2>>, <<"1005", -1>>, <<"1524", -1>>, <<"3048", -1>>,
     <<"500", 0>>, <<"1000", 0>>, <<"1609344", -3>>, <<"1852", 0>>, <<"804672", -2>>,
     <<"9260", 0>>, <<"12345", 0>>}

\* texts of a distance as a file can hold them: a negative number, exponents,
\* more decimals than are written back, a negative zero, digits of another
\* script, a number beyond the width of an integer, the largest and the
\* smallest sizes
DistTexts ==
    {"-200000m", "1e6m", "100000e-6ft", "100.00001m", "3.49999ft", "0.1ft", "0.00005m",
     "-0ft", "0.015nm", "1۳m", "3.280839895013123e2ft", "1e300m", "4.9e-324m"}

\* the distances of the model: those numbers and the values of those texts
DistInputs ==
    {DecimalFloat(FALSE, d[1], d[2]) : d \in DistDecimals}
        \cup {convert_distance_to_m_and_og_unit(s).v : s \in DistTexts}

DistUnits == {"ft", "m", "nm", "ml"}

DistInit ==
    /\ dd \in DistInputs
    /\ du \in DistUnits
    /\ dtext = ""
    /\ dback = [ok |-> FALSE, v |-> SignedZero(FALSE), unit |-> ""]
    /\ dpc = "init"
    /\ rin = CHOOSE i \in ReconInputs : TRUE
    /\ ReconIdle
    /\ cdata = Str("")
    /\ CodecIdle
    /\ WptIdle
    /\ AirIdle
    /\ LateIdle

\* dtext = format_distance(dd, du)
DFormat ==
    /\ dpc = "init"
    /\ dtext' = format_distance(Some(dd), du)
    /\ dpc' = "formatted"
    /\ UNCHANGED <<dd, du, dback, reconVars, codecVars, wptVars, airVars, lateVars>>

\* dback = convert_distance_to_m_and_og_unit(dtext)
DParse ==
    /\ dpc = "formatted"
    /\ dback' = convert_distance_to_m_and_og_unit(dtext)
    /\ dpc' = "parsed"
    /\ UNCHANGED <<dd, du, dtext, reconVars, codecVars, wptVars, airVars, lateVars>>

DistNext == DFormat \/ DParse

SpecDistance == DistInit /\ [][DistNext]_vars

(***************************************************************************)
(* Properties of update_airports_in_cup, checked under SpecRecon           *)
(***************************************************************************)
\* how often the waypoint with _id id is listed in the four result lists
Listed(data, id) ==
    Cardinality({i \in 1 .. Len(data.updated) : data.updated[i].id = id})
    + Cardinality({i \in 1 .. Len(data.deleted) : data.deleted[i].old.id = id})
    + Cardinality({i \in 1 .. Len(data.not_found) : data.not_found[i].id = id})
    + Cardinality({i \in 1 .. Len(data.not_updated) : data.not_updated[i].old.id = id})

\* C1: when a run has returned, every airport waypoint of the parsed input is
\* in exactly one of the lists updated, deleted, not_found, not_updated.
C1_ClassifiedExactlyOnce ==
    rpc = "done" =>
        \A i \in 1 .. Len(airports_in_cup) :
            Listed(Get(result).data, airports_in_cup[i]) = 1

\* the directory records the answered queries of one kind returned
Returned(kind) ==
    UNION {{queries[i].ids[k] : k \in 1 .. Len(queries[i].ids)} :
              i \in {j \in 1 .. Len(queries) : queries[j].kind = kind /\ queries[j].ok}}

\* the records returned as the nearest match of an input airport waypoint
NearestMatches == Returned("nearest") \ {None}

\* the records the bounding-box queries returned, all of which are appended
\* as added waypoints
AddedRecords == Returned("bbox")

\* C2: no directory record that was returned as the nearest match of an input
\* airport waypoint, in any batch and whatever the classification, is also
\* appended as an added waypoint.
C2_AddedDisjointFromMatches == NearestMatches \cap AddedRecords = {}

\* a directory query has raised
QueryFailed == \E i \in 1 .. Len(queries) : ~queries[i].ok

\* C3: once a nearest_bulk or bounding-box query has raised, in whatever batch,
\* the call has raised and returns nothing, then and ever after; and a call
\* that has returned had an answer to the nearest_bulk query of every batch
\* of 500 airport waypoints and, with add_new, to the bounding-box query of
\* every batch.
C3_QueryFailureAborts ==
    /\ QueryFailed => (rpc = "raised" /\ result = None)
    /\ result # None =>
          /\ ~QueryFailed
          /\ \A k \in 1 .. (Len(points) + 499) \div 500 :
                /\ \E i \in 1 .. Len(queries) :
                       queries[i].kind = "nearest" /\ queries[i].batch = k
                /\ rin.add_new =>
                       \E i \in 1 .. Len(queries) :
                           queries[i].kind = "bbox" /\ queries[i].batch = k

\* a bounding-box query raised in the second batch, after the first batch was
\* applied to the collection
C3_Witness ==
    /\ rpc = "raised"
    /\ Len(queries) > 0
    /\ ~queries[Len(queries)].ok
    /\ queries[Len(queries)].kind = "bbox"
    /\ queries[Len(queries)].batch = 2
    /\ Len(run.data_report.added) > 0
    /\ Len(run.data_report.updated) > 0

\* C4: a call with update_r greater than search_r issues no directory query
\* and does not return a result.
C4_RadiiRejected ==
    rin.update_r > rin.search_r => (queries = <<>> /\ rpc # "done")

\* the waypoints of the input that are still in the collection
Remaining(out, n) == SelectSeq(out, LAMBDA w : w.id <= n)

\* two waypoint objects with the same attributes
SameAttrs(a, b) == [a EXCEPT !.id = 0] = [b EXCEPT !.id = 0]

\* the input waypoints of out (those with one of the n _ids given at loading)
\* come first and in their original order, and the added ones follow in the
\* order of the additions
InOrder(out, n, added) ==
    /\ \A i \in 1 .. Len(Remaining(out, n)) : out[i].id <= n
    /\ \A i \in 1 .. Len(out), j \in 1 .. Len(out) :
          (i < j /\ out[j].id <= n) => out[i].id < out[j].id
    /\ Len(out) = Len(Remaining(out, n)) + Len(added)
    /\ \A i \in 1 .. Len(added) : SameAttrs(out[Len(Remaining(out, n)) + i], added[i])

\* C10: throughout a run and in the collection it returns, the input waypoints
\* that remain are in their original relative order and every added waypoint
\* comes after all of them, in the order the additions were made.
C10_OrderPreserved ==
    /\ InOrder(run.cup_file.waypoints, counts.total_wpts_before, run.data_report.added)
    /\ rpc = "done" =>
          InOrder(Get(result).cup_file.waypoints, counts.total_wpts_before,
                  Get(result).data.added)

\* a run has returned after a deletion, updates and additions made in two batches,
\* with a waypoint that is no airport among the input
C10_Witness ==
    /\ rpc = "done"
    /\ Len(Get(result).data.deleted) > 0
    /\ Len(Get(result).data.updated) > 1
    /\ \E i \in 1 .. Len(queries), j \in 1 .. Len(queries) :
          /\ queries[i].kind = "bbox" /\ queries[i].batch = 1 /\ Len(queries[i].ids) > 0
          /\ queries[j].kind = "bbox" /\ queries[j].batch = 2 /\ Len(queries[j].ids) > 0
    /\ counts.total_wpts_before > counts.total_apts_before

(***************************************************************************)
(* Properties of CupFile, checked under SpecCodec                          *)
(***************************************************************************)
\* C7: for a collection produced by loads, loading its dumped text succeeds
\* and dumping the result gives the same text.
C7_RoundTrip ==
    /\ cpc # "reraised"
    /\ cpc = "done" => d2 = d1

\* C8: when loads has raised, the CupFile it ran on holds none of the
\* waypoints of the lines before the failing one.
C8_NoPartialLoad == cpc = "raised" => cf.waypoints = <<>>

\* the last call of load or loads came to read the header line and found
\* none: it was handed a str or bytes, or a file it could read, and the
\* content has no line
NoHeaderLine ==
    /\ cpc # "init"
    /\ cdata.kind # "other"
    /\ cdata.kind = "path" => cdata.readable
    /\ content = ""

\* C9 as stated: loads on content without a header line raises.
C9_EmptyContentRaises == NoHeaderLine => cpc \in {"raised", "more_raised"}

\* C9, amended: loads on content without a header line, a str or bytes, does
\* not raise; it returns the CupFile it ran on, which holds the waypoints and
\* the tasks it held before the call, none for a new CupFile.
C9_EmptyContentReturnsSelf ==
    NoHeaderLine =>
        /\ cpc \notin {"raised", "more_raised"}
        /\ cf.waypoints = cprev.waypoints
        /\ cf.tasks = cprev.tasks
        /\ cdata.kind # "path" => cf = cprev

\* loads has returned from empty bytes on a CupFile that holds waypoints
\* and tasks
C9_Witness ==
    /\ NoHeaderLine
    /\ cpc = "more_loaded"
    /\ cdata = EmptyBytes
    /\ Len(cf.waypoints) > 0
    /\ Len(cf.tasks) > 0

(***************************************************************************)
(* Properties of CupWaypoint, checked under SpecWaypoint                   *)
(***************************************************************************)
\* C5: after an assignment that raised, every stored field of the waypoint has
\* the value it had before the assignment.
C5_FailedSetterChangesNothing ==
    (wop.kind = "set" /\ wop.raised) => wpt = wprev

\* f"{s:07.4f}": four decimals, and zeros after the sign up to seven
\* characters
PadSigned(t, w) ==
    IF Ch(t, 1) = "-" THEN "-" \o ZeroPad(Sub(t, 2, Len(t)), w - 1) ELSE ZeroPad(t, w)

\* f"{d:02}:{m:02}:{s:07.4f}{suffix}" with "s = (deg - d - m / 60) * 3600",
\* frac being deg - d, d and m natural numbers of any size
DmsText(frac, d, m, suffix) ==
    ZeroPad(BigStr(d), 2) \o ":" \o ZeroPad(BigStr(m), 2) \o ":"
        \o PadSigned(FormatFloat(MulFloat(SubFloat(frac, DivFloat(FloatOfBig(FALSE, m),
                                                                 FloatOfInt(60))),
                                          FloatOfInt(3600)), 4), 7)
        \o suffix

\* "m = int((deg - d) * 60)"
DmsMinutes(frac, d, suffix) ==
    DmsText(frac, d, TruncFloat(MulFloat(frac, FloatOfInt(60))), suffix)

\* "d = int(deg)" of deg = abs(deg)
DmsDegrees(deg, d, suffix) == DmsMinutes(SubFloat(deg, FloatOfBig(FALSE, d)), d, suffix)

\* format_dms(deg, hemis) of a finite deg; int() raises on an infinity and
\* on not-a-number
format_dms(deg, hemis) ==
    DmsDegrees(AbsFloat(deg), TruncFloat(AbsFloat(deg)),
               IF hemis = "NS" THEN (IF LessZero(deg) THEN "S" ELSE "N")
               ELSE (IF LessZero(deg) THEN "W" ELSE "E"))

\* a value of a property as json.loads gives it, a str or None, and what an
\* f-string writes for it
JsonStr(text) == [null |-> FALSE, s |-> text]
JsonNull == [null |-> TRUE, s |-> ""]
Written(v) == IF v.null THEN "None" ELSE v.s

\* the order in which geojson_to_openair writes the properties
WrittenProps == <<<<"class", "AC">>, <<"type", "AY">>, <<"name", "AN">>,
                  <<"frequency", "AF">>, <<"station", "AG">>,
                  <<"lower_limit", "AL">>, <<"upper_limit", "AH">>>>

RECURSIVE PropLines(_, _)
\* the lines of the properties from the k-th of WrittenProps on: a key that
\* is absent is None here, and a key that is present is written, null too
PropLines(props, k) ==
    IF k > Len(WrittenProps) THEN <<>>
    ELSE (IF IsNone(props[WrittenProps[k][1]]) THEN <<>>
          ELSE <<WrittenProps[k][2] \o " " \o Written(Get(props[WrittenProps[k][1]]))>>)
         \o PropLines(props, k + 1)

\* "for lon, lat in coords": one DP line for each coordinate of the ring
DpLines(ring) ==
    [k \in 1 .. Len(ring) |->
        "DP " \o format_dms(ring[k].lat, "NS") \o " " \o format_dms(ring[k].lon, "EW")]

\* the lines of one feature, with the empty line that ends it
FeatureLines(feature) ==
    PropLines(feature.properties, 1) \o DpLines(feature.geometry.coordinates[1]) \o <<"">>

RECURSIVE FeaturesLines(_, _)
FeaturesLines(features, k) ==
    IF k > Len(features) THEN <<>>
    ELSE FeatureLines(features[k]) \o FeaturesLines(features, k + 1)

\* geojson_to_openair(geojson_str), the collection given as json.loads has
\* it, its coordinates finite
geojson_to_openair(data) ==
    Join(<<"*VERSION: 2.0", "*WRITTEN_BY: SeeYou">> \o FeaturesLines(data.features, 1), "\n")

\* the FeatureCollections of the model: Polygon features with closed rings,
\* the coordinates as json.loads reads them from decimal numbers; a
\* coordinate is the k-th list of its ring
GeoPoint(lon, lat, k) == [lon |-> Get(FloatOf(lon)), lat |-> Get(FloatOf(lat)), obj |-> k]

GeoRingA ==
    <<GeoPoint("14.0", "46.0", 1), GeoPoint("14.5", "46.0", 2),
      GeoPoint("14.0", "46.25", 3), GeoPoint("14.0", "46.0", 4)>>

GeoRingB ==
    <<GeoPoint("-70.5", "-33.0", 1), GeoPoint("-70.0", "-33.0", 2),
      GeoPoint("-70.0", "-33.75", 3), GeoPoint("-70.5", "-33.75", 4),
      GeoPoint("-70.5", "-33.0", 5)>>

\* coordinates that are no whole hundredths of a second
GeoRingC ==
    <<GeoPoint("13.9", "46.166666666666664", 1), GeoPoint("14.1", "46.3", 2),
      GeoPoint("-0.0", "1e-9", 3), GeoPoint("13.9", "46.166666666666664", 4)>>

GeoProps(class, name) ==
    [p \in PropNames |-> IF p = "class" THEN class ELSE IF p = "name" THEN name ELSE None]

GeoFeature(props, ring) ==
    [type |-> "Feature",
     geometry |-> [type |-> "Polygon", coordinates |-> <<ring>>],
     properties |-> props,
     activation_times |-> None]

GeoClassed == GeoFeature(GeoProps(Some(JsonStr("D")), Some(JsonStr("ALPHA"))), GeoRingA)
GeoFull ==
    GeoFeature([p \in PropNames |->
                   Some(JsonStr(IF p = "class" THEN "R" ELSE IF p = "name" THEN "BRAVO"
                                ELSE IF p = "type" THEN "TRA"
                                ELSE IF p = "frequency" THEN "123.500"
                                ELSE IF p = "station" THEN "TOWER"
                                ELSE IF p = "lower_limit" THEN "GND" ELSE "FL95"))],
               GeoRingB)
GeoNamed == GeoFeature(GeoProps(None, Some(JsonStr("CHARLIE"))), GeoRingB)
GeoBare == GeoFeature(GeoProps(None, None), GeoRingA)
\* a class that is null
GeoNull == GeoFeature(GeoProps(Some(JsonNull), Some(JsonStr("ECHO"))), GeoRingC)

GeoCollections ==
    {[type |-> "FeatureCollection", features |-> fs] :
        fs \in {<<GeoClassed>>, <<GeoClassed, GeoFull>>, <<GeoFull, GeoClassed, GeoFull>>,
                <<GeoNamed>>, <<GeoClassed, GeoNamed>>, <<GeoBare, GeoNamed>>,
                <<GeoBare, GeoClassed>>, <<GeoNull>>, <<GeoClassed, GeoNull>>}}

\* C6: the constructor, given decimal lat and lon, raises exactly when the
\* name is empty or lat is outside [-90, 90] or lon is outside [-180, 180].
C6_ConstructorAcceptsRanges ==
    wop.kind = "init" =>
        (wop.raised <=>
            ~(/\ wop.value.s # ""
              /\ -90 * DegUnit <= wop.lat.n /\ wop.lat.n <= 90 * DegUnit
              /\ -180 * DegUnit <= wop.lon.n /\ wop.lon.n <= 180 * DegUnit))
(***************************************************************************)
(* openair.py: openair_to_geojson over an OpenAir text, line by line       *)
(***************************************************************************)
\* a closed polygon with its properties
AirClosed ==
    "AC D\nAN ALPHA\nAL GND\nAH 1500ft\nDP 46:00:00 N 014:00:00 E\n"
    \o "DP 46:10:00 N 014:00:00 E\nDP 46:10:00 N 014:10:00 E\nDP 46:00:00 N 014:00:00 E\n"

\* an open polygon with comments, blank lines and activation times
AirUnclosed ==
    "* sample\n\nAC R\nAN BRAVO\nAY TRA\nAA 0800-1600\nAA 1800-2000\n"
    \o "  DP 45:30:00 S 010:00:00 W\nDP 45:30:30.5 S 010:30:00 W\n\nDP 45:00:00 S 010:15:00 W\n"

\* polygons of one and of two vertices, in the compact and the comma forms
AirFew ==
    "AC Q\nAN ONE\nDP 46:19:13N 014:22:12E\n"
    \o "AC Q\nAN TWO\nAF 123.500\nAG TOWER\nDP 46:00:00 N, 014:00:00 E\nDP 46:30:00 N, 014:00:00 E\n"

\* a circle off the prime meridian
AirCircle == "AC C\nAN CHARLIE\nV X=46:00:00 N 014:00:00 E\nDC 5\n"

\* circles centred on the prime meridian, and next to it
AirCircleZero ==
    "AC C\nAN ZERO\nV X=46:00:00 N 000:00:00 E\nDC 5\n"
    \o "AC C\nAN NEAR\nV X=46:00:00 N 000:06:00 E\nDC 5\n"
    \o "AC C\nAN EQUATOR\nV X=00:00:00 N 000:00:00 E\nDC 1.5\n"

\* a circle of radius 0 on the prime meridian, an open polygon, a circle,
\* and a circle whose radius is not-a-number
AirMixed ==
    "AC C\nAN POINT\nV X=46:00:00 N 000:00:00 E\nDC 0\n"
    \o "AC D\nAN DELTA\nDP 46:00:00 N 000:00:00 E\nDP 46:10:00 N 000:00:00 E\n"
    \o "DP 46:10:00 N 000:10:00 E\nAC C\nAN WIDE\nAL FL95\nAH FL195\nV X=46:00:00 N 000:00:00 E\nDC 10\n"
    \o "AC C\nAN NONE\nV X=46:00:00 N 014:00:00 E\nDC nan\n"

\* blocks that give no feature: no geometry, a centre without a radius, a
\* radius without a centre, a radius that is no number; and a block with
\* both vertices and a circle
AirPartial ==
    "AC E\nAN EMPTY\nAC E\nAN CENTRE\nV X=46:00:00 N 014:00:00 E\nAC E\nAN RADIUS\nDC 5\n"
    \o "AC E\nAN WORD\nV X=46:00:00 N 014:00:00 E\nDC five\n"
    \o "AC E\nAN BOTH\nV X=46:00:00 N 000:00:00 E\nDC 2\nDP 46:00:00 N 014:00:00 E\n"

\* a vertex that parse_openair_latlon rejects
AirInvalid == "AC D\nAN FOXTROT\nDP 46:00:00 N 014:00:00 E\nDP 46.5 14.5\nDP 46:10:00 N 014:10:00 E\n"

\* vertices before the first AC line, and an unknown command
AirHeadless == "DP 46:00:00 N 014:00:00 E\nDP 46:10:00 N 014:10:00 E\nSP 0,0,0\nAC G\nAN GOLF\n"

\* a circle in the southern and western hemispheres with activation times,
\* and a centre that parse_openair_latlon rejects
AirSouth ==
    "AC P\nAN HOTEL\nAY P\nAL GND\nAH UNL\nAA SR-SS\nV X=33:55:00 S 070:36:00 W\nDC 3.5\n"
    \o "* next\nAC P\nAN INDIA\nV X=33:55 S 070:36 W\nDC 1\n"

\* radiuses that are no decimal numbers: not-a-number, an infinity, and
\* digits grouped by an underscore
AirWords ==
    "AC C\nAN NAN\nV X=46:00:00 N 014:00:00 E\nDC +NaN\n"
    \o "AC C\nAN INF\nV X=46:00:00 N 014:00:00 E\nDC -Infinity\n"
    \o "AC C\nAN GROUPED\nV X=46:00:00 N 014:00:00 E\nDC 1_0\n"

\* a circle around the pole, a radius below a hundredth of a mile, and a
\* radius that leaves the centre on the western side of the prime meridian
\* where it is
AirSmall ==
    "AC C\nAN POLE\nV X=90:00:00 N 014:00:00 E\nDC 5\n"
    \o "AC C\nAN SMALL\nV X=46:00:00 N 014:00:00 E\nDC 0.005\n"
    \o "AC C\nAN TINY\nV X=46:00:00 N 000:00:00 W\nDC 1e-310\n"

\* digits of another script in a vertex and in a radius, and seconds that
\* are no number
AirDigits ==
    "AC D\nAN DIGITS\nDP ۴۶:۰۰:۰۰.۵ N 014:00:00 E\nDP 46:10:00 N 014:00:00 E\n"
    \o "AC C\nAN RADIUS\nV X=46:00:00 N 014:00:00 E\nDC ۵\n"
    \o "AC D\nAN DOTS\nDP 46:00:1.2.3 N 014:00:00 E\n"

\* a latitude of 310 digits, an infinity as a float
AirFar == "AC C\nAN FAR\nV X=1" \o Zeros(309) \o ":00:00 N 014:00:00 E\nDC 5\n"

AirTexts ==
    {"", AirClosed, AirUnclosed, AirFew, AirCircle, AirCircleZero, AirMixed, AirPartial,
     AirInvalid, AirHeadless, AirSouth, AirWords, AirSmall, AirDigits, AirFar}

AirInit ==
    /\ \/ og = None /\ otext \in AirTexts
       \/ og \in {Some(g) : g \in GeoCollections} /\ otext = geojson_to_openair(Get(og))
    /\ ures = None
    /\ oi = 0
    /\ ost = AirStart
    /\ ofc = None
    /\ opc = "init"
    /\ rin = CHOOSE i \in ReconInputs : TRUE
    /\ ReconIdle
    /\ cdata = Str("")
    /\ CodecIdle
    /\ WptIdle
    /\ DistIdle
    /\ LateIdle

\* after the loop of parse_openair took the line raw_line
OLineDone(raw_line) ==
    /\ ost' = AirLine(raw_line, ost)
    /\ oi' = oi + 1

\* one pass of the loop of parse_openair
OLine ==
    /\ opc = "init"
    /\ oi < Len(SplitLines(otext))
    /\ ~AirLineRaises(SplitLines(otext)[oi + 1])
    /\ OLineDone(SplitLines(otext)[oi + 1])
    /\ UNCHANGED <<otext, ofc, opc, og, ures, reconVars, codecVars, wptVars, distVars, lateVars>>

\* a line whose coordinate is invalid: parse_openair_latlon raises ValueError,
\* and openair_to_geojson with it
ORaise ==
    /\ opc = "init"
    /\ oi < Len(SplitLines(otext))
    /\ AirLineRaises(SplitLines(otext)[oi + 1])
    /\ opc' = "raised"
    /\ UNCHANGED <<otext, oi, ost, ofc, og, ures, reconVars, codecVars, wptVars, distVars, lateVars>>

\* after the last line, st the locals after the final _save_current_airspace
OFinished(st) ==
    /\ ost' = st
    /\ ofc' = FeatureCollection(st.airspaces)
    /\ opc' = IF IsNone(FeatureCollection(st.airspaces)) THEN "math_error" ELSE "done"

\* the end of parse_openair and the rest of openair_to_geojson
OFinish ==
    /\ opc = "init"
    /\ oi = Len(SplitLines(otext))
    /\ OFinished(_save_current_airspace(ost))
    /\ UNCHANGED <<otext, oi, og, ures, reconVars, codecVars, wptVars, distVars, lateVars>>

\* the same text through parse_openair of utils/units.py
OUnits ==
    /\ opc \in {"done", "raised"}
    /\ IsNone(ures)
    /\ ures' = Some(units_parse_openair(otext))
    /\ UNCHANGED <<otext, oi, ost, ofc, opc, og, reconVars, codecVars, wptVars, distVars,
                   lateVars>>

AirNext == OLine \/ ORaise \/ OFinish \/ OUnits

SpecOpenair == AirInit /\ [][AirNext]_vars

(***************************************************************************)
(* parse_line_to_lon_lat_any, parser by parser                             *)
(***************************************************************************)
\* the coordinates the lines of the model are written from: degrees, minutes
\* and seconds as they stand in the line
GeoLats == {[d |-> "46", m |-> "10", s |-> "29"]}
GeoLons == {[d |-> "013", m |-> "39", s |-> "58"], [d |-> "046", m |-> "10", s |-> "29"]}

\* the notations: OpenAir DP with the hemisphere apart, attached, and in
\* lower case with a fraction; AIP plain, with fractions and with marks;
\* eAPI with blanks and with a tab between latitude and longitude
GeoKinds == 1 .. 8

\* one coordinate in the notation k
GeoCoord(k, c, h) ==
    IF k = 1 THEN c.d \o ":" \o c.m \o ":" \o c.s \o " " \o h
    ELSE IF k = 2 THEN c.d \o ":" \o c.m \o ":" \o c.s \o h
    ELSE IF k = 3 THEN c.d \o ":" \o c.m \o ":" \o c.s \o ".5 " \o h
    ELSE IF k = 4 THEN c.d \o c.m \o c.s \o h
    ELSE IF k = 5 THEN c.d \o c.m \o c.s \o ".5" \o h
    ELSE IF k = 6 THEN c.d \o "'" \o c.m \o "'" \o c.s \o "\"" \o h
    ELSE c.d \o " " \o c.m \o " " \o c.s \o " " \o h

\* the line of the notation k
GeoText(k, la, lah, lo, loh) ==
    (IF k \in {1, 2} THEN "DP " ELSE IF k = 3 THEN "  dp  " ELSE "")
        \o GeoCoord(k, la, lah) \o (IF k = 8 THEN "\t" ELSE IF k = 3 THEN "  " ELSE " ")
        \o GeoCoord(k, lo, loh)

\* the unit of the coordinates the lines are written from: one hundredth of
\* an arc second
ArcUnit == 360000

\* a float as the nearest whole number of units
ArcOf(x) == (IF x.neg THEN -1 ELSE 1) * RoundScaled(BigMul(x.m, Big(ArcUnit)), x.e)

\* the value of a coordinate as written, in units of ArcUnit per degree
GeoValue(k, c, h) ==
    (IF h \in {"S", "W"} THEN -1 ELSE 1)
        * (DigitsVal(c.d) * ArcUnit + DigitsVal(c.m) * (ArcUnit \div 60)
           + DigitsVal(c.s) * 100 + (IF k \in {3, 5} THEN 50 ELSE 0))

GeoLine(k, la, lah, lo, loh) ==
    [text |-> GeoText(k, la, lah, lo, loh), known |-> TRUE,
     lat |-> GeoValue(k, la, lah), lon |-> GeoValue(k, lo, loh)]

\* lines in none of the three notations
GeoJunk ==
    {"", "foo", "DP 46.5 14.5", "4610N 01339E", "DP 461029N 0133958E",
     "46 10 29.5N 013 39 58.5E", "DP 46:10:29N013:39:58E", "46102900N 0133958E"}

GeoLines ==
    {GeoLine(k, la, lah, lo, loh) :
        k \in GeoKinds, la \in GeoLats, lah \in {"N", "S"}, lo \in GeoLons, loh \in {"E", "W"}}
    \cup {[text |-> t, known |-> FALSE, lat |-> 0, lon |-> 0] : t \in GeoJunk}

LineInit ==
    /\ lin \in GeoLines
    /\ lstep = "dp"
    /\ lres = None
    /\ UpIdle
    /\ ThrIdle
    /\ rin = CHOOSE i \in ReconInputs : TRUE
    /\ ReconIdle
    /\ cdata = Str("")
    /\ CodecIdle
    /\ WptIdle
    /\ DistIdle
    /\ AirIdle

\* "try: return parser(line) / except Exception: pass" with the outcome r of
\* the parser and v the tuple it returns; next is what follows a failure
LTried(r, v, next) ==
    /\ lres' = IF r.ok THEN Some(v) ELSE None
    /\ lstep' = IF r.ok THEN "done" ELSE next
    /\ UNCHANGED <<lin, upVars, thrVars, reconVars, codecVars, wptVars, distVars, airVars>>

LTriedDp(r) == LTried(r, LonLat(r), "aip")
LTriedAip(r) == LTried(r, LatLon(r), "eapi")
LTriedEapi(r) == LTried(r, LonLat(r), "raised")

\* return parse_line_to_lon_lat(line)
LDp == lstep = "dp" /\ LTriedDp(parse_line_to_lon_lat(lin.text))

\* return parse_aip_point(line)
LAip == lstep = "aip" /\ LTriedAip(parse_aip_point(lin.text))

\* return parse_eapi_line(line), and the ValueError after the last failure
LEapi == lstep = "eapi" /\ LTriedEapi(parse_eapi_line(lin.text))

LineNext == LDp \/ LAip \/ LEapi

SpecLine == LineInit /\ [][LineNext]_vars

(***************************************************************************)
(* state.py: UpdateCupFile.handle_upload and reset_state                    *)
(***************************************************************************)
\* an uploaded file: file.filename, and how "await file.read()" ends
UploadFiles == [filename : {"fields.cup", "up/sites.cup"}, read : {"returns", "raises"}]

\* the most files of one upload
MaxFiles == 2

\* the uploads and the switches of the model, and how update_airports_in_cup
\* ends
UploadInputs ==
    [files : UNION {[1 .. n -> UploadFiles] : n \in 0 .. MaxFiles},
     recon : {"returns", "raises"},
     update_locations : BOOLEAN, add_missing : BOOLEAN, delete_closed : BOOLEAN]

\* str(e) of the exceptions of the model: the one file.read() raises, the one
\* update_airports_in_cup raises, the UnboundLocalError of "if data:" and
\* the ValueError of the unpacking
ReadError == "read failed"
UpdateError == "update failed"
UnboundError == "cannot access local variable 'data' where it is not associated with a value"
UnpackError == "too many values to unpack (expected 2)"

\* "return cup_file, report, dict(counts), {k: list(v) ...}": the tuple that
\* update_airports_in_cup returns
ReconReturn == <<"cup_file", "report", "counts", "data_report">>

\* "updated_file, report = value": TRUE when the unpacking raises ValueError
UnpackRaises(value) == Len(value) # 2

UploadInit ==
    /\ hin \in UploadInputs
    /\ hpc = "init"
    /\ hread = 0
    /\ hdata = None
    /\ stage = PRE_UPDATE
    /\ file_name = ""
    /\ error_message = ""
    /\ zip_file = None
    /\ hlog = {}
    /\ LineIdle
    /\ ThrIdle
    /\ rin = CHOOSE i \in ReconInputs : TRUE
    /\ ReconIdle
    /\ cdata = Str("")
    /\ CodecIdle
    /\ WptIdle
    /\ DistIdle
    /\ AirIdle

\* reset_state(upload_id), an event of its own: it runs when no
\* handle_upload is running, and a new upload can follow it
HReset ==
    /\ hpc \in {"init", "ended"}
    /\ stage' = PRE_UPDATE
    /\ file_name' = ""
    /\ hpc' = "init"
    /\ UNCHANGED <<hin, hread, hdata, error_message, zip_file, hlog, lineVars, thrVars,
                   reconVars, codecVars, wptVars, distVars, airVars>>

\* "except Exception as e": the stage, the message, and the end of the handler
HExcept(e) ==
    /\ stage' = ERROR
    /\ error_message' = e
    /\ hpc' = "ended"
    /\ UNCHANGED zip_file

\* self.stage = self.RUNNING; yield.  The locals of the call are new.
HStart ==
    /\ hpc = "init"
    /\ stage' = RUNNING
    /\ hpc' = "read"
    /\ hread' = 0
    /\ hdata' = None
    /\ hlog' = {}
    /\ UNCHANGED <<hin, file_name, error_message, zip_file, lineVars, thrVars, reconVars,
                   codecVars, wptVars, distVars, airVars>>

\* one pass of "for file in files": data = await file.read(), and
\* self.file_name = os.path.basename(file.filename or "")
HRead ==
    /\ hpc = "read"
    /\ hread < Len(hin.files)
    /\ IF hin.files[hread + 1].read = "raises"
       THEN /\ HExcept(ReadError)
            /\ hlog' = hlog \cup {"read raised"}
            /\ UNCHANGED <<hread, hdata, file_name>>
       ELSE /\ hread' = hread + 1
            /\ hdata' = Some(hread + 1)
            /\ file_name' = basename(hin.files[hread + 1].filename)
            /\ hlog' = hlog \cup {"read returned"}
            /\ UNCHANGED <<hpc, stage, error_message, zip_file>>
    /\ UNCHANGED <<hin, lineVars, thrVars, reconVars, codecVars, wptVars, distVars, airVars>>

\* after update_airports_in_cup returned value: the unpacking into
\* updated_file and report, create_zip, and the stage
HReturned(value) ==
    IF UnpackRaises(value) THEN HExcept(UnpackError)
    ELSE /\ zip_file' = Some(<<value[1], value[2]>>)
         /\ stage' = DONE
         /\ hpc' = "ended"
         /\ UNCHANGED error_message

\* after the loop: "if data:", which finds data unbound when there was no
\* file, the call of update_airports_in_cup and the rest of the try block
HUpdate ==
    /\ hpc = "read"
    /\ hread = Len(hin.files)
    /\ IF IsNone(hdata) THEN HExcept(UnboundError) /\ UNCHANGED hlog
       ELSE IF hin.recon = "raises"
       THEN HExcept(UpdateError) /\ hlog' = hlog \cup {"update raised"}
       ELSE HReturned(ReconReturn) /\ hlog' = hlog \cup {"update returned"}
    /\ UNCHANGED <<hin, hread, hdata, file_name, lineVars, thrVars, reconVars, codecVars,
                   wptVars, distVars, airVars>>

UploadNext == HReset \/ HStart \/ HRead \/ HUpdate

SpecUpload == UploadInit /\ [][UploadNext]_vars

(***************************************************************************)
(* utils/general.py: run_in_threads, and AirportUpdater of                 *)
(* src/update_airports_in_db.py                                            *)
(***************************************************************************)
\* an airport of a source file, and a row of the airports table
OapItem(id, type, name) == [id |-> id, type |-> type, name |-> name]
DbRow(source_id, name) == [source_id |-> source_id, name |-> name]

\* the files of the source: one download task each
SourceBlobs ==
    <<<<OapItem("a1", 2, "Alpha"), OapItem("a2", 0, "Anton")>>,
      <<OapItem("b1", 5, "Berta")>>,
      <<OapItem("c1", 4, "Heliport"), OapItem("c2", 3, "Caesar")>>>>

\* the airports table before the run: empty; some airports of the source,
\* one of them under an older name, and one the source no longer has; all the
\* airports of the source
ExistingTables ==
    {{},
     {DbRow("a1", "Alpha"), DbRow("b1", "Bertha"), DbRow("x9", "Gone")},
     {DbRow("a1", "Alpha"), DbRow("a2", "Anton"), DbRow("b1", "Berta"), DbRow("c2", "Caesar")}}

UpdaterInputs ==
    [blobs : {SourceBlobs}, fails : SUBSET (1 .. Len(SourceBlobs)), existing : ExistingTables]

\* filter_by_type(data): heliports and water aerodromes are left out
filter_by_type(data) == SelectSeq(data, LAMBDA item : item.type \notin {4, 7, 10})

\* construct_airport_from_oap(oap_airport), the fields that are compared; the
\* names of the source are in title case already, which name.title() keeps
construct_airport_from_oap(item) == DbRow(item.id, item.name)

UpdaterInit ==
    /\ tin \in UpdaterInputs
    /\ pending = 1 .. Len(tin.blobs)
    /\ results = <<>>
    /\ oap_airports = None
    /\ tdb = tin.existing
    /\ removed = None
    /\ tpc = "download"
    /\ LineIdle
    /\ UpIdle
    /\ rin = CHOOSE i \in ReconInputs : TRUE
    /\ ReconIdle
    /\ cdata = Str("")
    /\ CodecIdle
    /\ WptIdle
    /\ DistIdle
    /\ AirIdle

\* "try: results.extend(future.result()) / except Exception: logger.error":
\* the list after the future of task t came up in as_completed
Collected(t) ==
    IF t \in tin.fails THEN results ELSE results \o filter_by_type(tin.blobs[t])

\* one pass of "for future in as_completed(futures)": the futures complete in
\* any order
TComplete ==
    /\ tpc = "download"
    /\ \E t \in pending :
          /\ results' = Collected(t)
          /\ pending' = pending \ {t}
    /\ UNCHANGED <<tin, oap_airports, tdb, removed, tpc, lineVars, upVars, reconVars,
                   codecVars, wptVars, distVars, airVars>>

\* run_in_threads returns and download_airports builds self.oap_airports
TDownloaded ==
    /\ tpc = "download"
    /\ pending = {}
    /\ oap_airports' = Some([k \in 1 .. Len(results) |-> construct_airport_from_oap(results[k])])
    /\ tpc' = "update"
    /\ UNCHANGED <<tin, pending, results, tdb, removed, lineVars, upVars, reconVars,
                   codecVars, wptVars, distVars, airVars>>

\* the source_ids of a list and of a table
SourceIdsOf(apts) == {apts[k].source_id : k \in 1 .. Len(apts)}
TableIds(table) == {row.source_id : row \in table}

\* removed_source_ids = list(set(existing_by_source_id) - current_source_ids)
RemovedIds(existing, current_source_ids) == TableIds(existing) \ current_source_ids

\* _categorize_airports: the new, the changed and the removed
_categorize_airports(existing, current_source_ids, apts) ==
    [new_airports |-> {apts[k] : k \in {j \in 1 .. Len(apts) :
                                           apts[j].source_id \notin TableIds(existing)}},
     changed_airports |-> {apts[k] : k \in {j \in 1 .. Len(apts) :
                                               /\ apts[j].source_id \in TableIds(existing)
                                               /\ apts[j] \notin existing}},
     removed_source_ids |-> RemovedIds(existing, current_source_ids)]

\* _process_new_airports, _process_changed_airports and
\* _process_removed_airports on the table
Processed(table, cat) ==
    {row \in table :
        /\ row.source_id \notin cat.removed_source_ids
        /\ row.source_id \notin {a.source_id : a \in cat.changed_airports}}
    \cup cat.changed_airports \cup cat.new_airports

\* update_airports with the categories cat
TUpdated(cat) ==
    /\ tdb' = Processed(tdb, cat)
    /\ removed' = Some(cat.removed_source_ids)
    /\ tpc' = "done"

\* update_airports()
TUpdate ==
    /\ tpc = "update"
    /\ TUpdated(_categorize_airports(tdb, SourceIdsOf(Get(oap_airports)), Get(oap_airports)))
    /\ UNCHANGED <<tin, pending, results, oap_airports, lineVars, upVars, reconVars,
                   codecVars, wptVars, distVars, airVars>>

UpdaterNext == TComplete \/ TDownloaded \/ TUpdate

SpecUpdater == UpdaterInit /\ [][UpdaterNext]_vars

(***************************************************************************)
(* Properties of one airport waypoint of a run, checked under SpecRecon    *)
(***************************************************************************)
\* the batch and the place in its batch of the i-th airport waypoint, the
\* batches being the consecutive runs of 500 airport waypoints of the file
BatchOf(i) == ((i - 1) \div 500) + 1
PlaceOf(i) == ((i - 1) % 500) + 1

\* the answered nearest_bulk queries of the batch of the i-th airport waypoint
NearestOf(i) ==
    {k \in 1 .. Len(queries) :
        queries[k].kind = "nearest" /\ queries[k].ok /\ queries[k].batch = BatchOf(i)}

\* the directory record returned as nearest match of the i-th airport
\* waypoint, None when the query found none; asked only when NearestOf(i) # {}
MatchOf(i) == queries[CHOOSE k \in NearestOf(i) : TRUE].ids[PlaceOf(i)]

\* the distance the directory reported for that match
MatchDistance(i) == DistanceM(points[i], DirRecords[Get(MatchOf(i))].location)

\* the i-th airport waypoint has a nearest match within update_r
MatchedWithin(i) ==
    /\ NearestOf(i) # {}
    /\ ~IsNone(MatchOf(i))
    /\ MatchDistance(i) <= rin.update_r

\* the loop is through with the batch of the i-th airport waypoint
BatchDone(i) ==
    \/ rpc \in {"finish", "done"}
    \/ rpc = "bbox" /\ batch >= BatchOf(i)
    \/ rpc \in {"nearest", "classify"} /\ batch > BatchOf(i)

\* the entries of a result list that are about the waypoint with this _id
EntriesOf(list, id) == {k \in 1 .. Len(list) : list[k].old.id = id}

\* the loop has come to the i-th airport waypoint and put it in updated
InUpdated(i) == EntriesOf(run.data_report.updated, airports_in_cup[i]) # {}

\* the waypoint of the collection with this _id is there
Present(wpts, id) == \E k \in 1 .. Len(wpts) : wpts[k].id = id

\* C12: an airport waypoint whose nearest record is not closed and within
\* update_r, in a run with fix_location, gets exactly one updated entry, and
\* then its lat and lon are those of the record.
C12_UpdateCopiesLocation ==
    \A i \in 1 .. Len(airports_in_cup) :
        (/\ rin.fix_location
         /\ rin.update_r <= rin.search_r
         /\ MatchedWithin(i)
         /\ DirRecords[Get(MatchOf(i))].apt_type # CLOSED
         /\ BatchDone(i) \/ InUpdated(i))
        => /\ Cardinality(EntriesOf(run.data_report.updated, airports_in_cup[i])) = 1
           /\ Present(run.cup_file.waypoints, airports_in_cup[i])
           /\ ById(run.cup_file.waypoints, airports_in_cup[i]).lat
                  = DirRecords[Get(MatchOf(i))].location.y
           /\ ById(run.cup_file.waypoints, airports_in_cup[i]).lon
                  = DirRecords[Get(MatchOf(i))].location.x

\* an Optional number of metres of a record as a waypoint keeps it
Metres(o) == IF IsNone(o) THEN None ELSE Some(FloatOfInt(Get(o)))

\* the value a directory record has for a field of a waypoint, None when it
\* has none
RecordValue(rec, attr) ==
    IF attr = "lat" THEN Some(rec.location.y)
    ELSE IF attr = "lon" THEN Some(rec.location.x)
    ELSE IF attr = "elev" THEN Metres(rec.elev)
    ELSE IF attr = "style" THEN Some(rec.style)
    ELSE IF attr = "rwdir" THEN rec.rw_dir
    ELSE IF attr = "rwlen" THEN Metres(rec.rw_len)
    ELSE IF attr = "rwwidth" THEN Metres(rec.rw_width)
    ELSE rec.freq

\* the value of a field of a waypoint, None when it has none
FieldValue(w, attr) == IF attr \in {"lat", "lon"} THEN Some(w[attr]) ELSE w[attr]

\* a value that is neither empty nor zero
NonEmpty(attr, o) ==
    /\ ~IsNone(o)
    /\ IF attr = "freq" THEN Get(o) # ""
       ELSE IF attr \in {"elev", "rwlen", "rwwidth"} THEN FloatTruthy(Get(o))
       ELSE Get(o) # 0

\* the fields of a waypoint that an update can or cannot touch
UpdateAttrs ==
    {"name", "code", "country", "lat", "lon", "elev", "style", "rwdir", "rwlen", "rwwidth",
     "freq", "desc", "userdata", "pics"}

\* the fields of now are those of old, but for the fields of the selected set
\* for which the record has a value
UpdatedFrom(now, old, rec, selected) ==
    \A attr \in UpdateAttrs :
        FieldValue(now, attr)
            = IF attr \in selected /\ NonEmpty(attr, RecordValue(rec, attr))
              THEN RecordValue(rec, attr)
              ELSE FieldValue(old, attr)

\* the entry in updated of the i-th airport waypoint
UpdatedEntry(i) ==
    run.data_report.updated[CHOOSE k \in EntriesOf(run.data_report.updated,
                                                  airports_in_cup[i]) : TRUE]

\* C18: every waypoint in updated has, in each field of the selected set, the
\* value of the matched record when that is neither empty nor zero and else
\* its prior value, and its prior value in every other field.
C18_UpdateCopiesFields ==
    \A i \in 1 .. Len(airports_in_cup) :
        InUpdated(i)
        => /\ Present(run.cup_file.waypoints, airports_in_cup[i])
           /\ UpdatedFrom(ById(run.cup_file.waypoints, airports_in_cup[i]),
                          UpdatedEntry(i).old,
                          DirRecords[Get(MatchOf(i))],
                          SeqSet(fields(rin.fix_location)))

\* the 500 m buckets up to update_r, by their upper bounds
BucketBounds(update_r) == {t \in 1 .. update_r : t % 500 = 0}

\* the count of the bucket with upper bound t, 0 when there is no such counter
BucketCount(t) == IF t \in DOMAIN run.buckets THEN run.buckets[t] ELSE 0

RECURSIVE SumCounts(_)
\* the sum of the counters with the upper bounds in S
SumCounts(S) ==
    IF S = {} THEN 0
    ELSE BucketCount(CHOOSE t \in S : TRUE) + SumCounts(S \ {CHOOSE t \in S : TRUE})

\* the entries of updated whose distance falls into the bucket up to t
UpdatedInBucket(t) ==
    {k \in 1 .. Len(run.data_report.updated) :
        /\ run.data_report.updated[k].distance <= t
        /\ t = 500 \/ run.data_report.updated[k].distance > t - 500}

\* C19: at the end of a run every waypoint in updated is counted in the first
\* 500 m bucket whose upper bound is not below its distance, buckets reaching
\* up to update_r, and the bucket counters sum to the number of updated.
C19_BucketsSumToUpdated ==
    rpc = "done"
    => /\ \A t \in BucketBounds(rin.update_r) :
              BucketCount(t) = Cardinality(UpdatedInBucket(t))
       /\ SumCounts(DOMAIN run.buckets) = Len(run.data_report.updated)

\* what loads made of the uploaded file, and the _ids of its waypoints
InputLoad == loads(NewCupFile(rin.file_name), rin.file, 1)
InputIds == {w.id : w \in SeqSet(InputLoad.cf.waypoints)}

\* the i-th airport waypoint is one to delete: its nearest match is within
\* update_r and closed, and delete_closed is set
ToDelete(i) ==
    /\ rin.delete_closed
    /\ MatchedWithin(i)
    /\ DirRecords[Get(MatchOf(i))].apt_type = CLOSED

\* the entry e of deleted holds the i-th airport waypoint, its match and
\* the distance
DeletedEntryOf(e, i) ==
    /\ e.old.id = airports_in_cup[i]
    /\ e.match.name = Some(DirRecords[Get(MatchOf(i))].name)
    /\ e.match.lat = DirRecords[Get(MatchOf(i))].location.y
    /\ e.match.lon = DirRecords[Get(MatchOf(i))].location.x
    /\ e.distance = MatchDistance(i)

\* C20: an airport waypoint of the input is removed from the collection if and
\* only if its nearest match is within update_r and closed and delete_closed is
\* set, and then deleted has one entry with it, its match and the distance; no
\* other waypoint of the input is removed, and none without delete_closed.
C20_RemovedIffClosedMatch ==
    (rpc # "init" /\ ~InputLoad.raised)
    => /\ \A i \in 1 .. Len(airports_in_cup) :
              /\ ~Present(run.cup_file.waypoints, airports_in_cup[i])
                 => /\ ToDelete(i)
                    /\ Cardinality(EntriesOf(run.data_report.deleted, airports_in_cup[i])) = 1
                    /\ \A k \in EntriesOf(run.data_report.deleted, airports_in_cup[i]) :
                           DeletedEntryOf(run.data_report.deleted[k], i)
              /\ (ToDelete(i) /\ BatchDone(i))
                 => ~Present(run.cup_file.waypoints, airports_in_cup[i])
       /\ \A id \in InputIds \ SeqSet(airports_in_cup) : Present(run.cup_file.waypoints, id)

(***************************************************************************)
(* Properties of the selections of a CupFile, checked under SpecCodec      *)
(***************************************************************************)
\* the _ids of a list of waypoints, in order
Ids(wpts) == [i \in 1 .. Len(wpts) |-> wpts[i].id]

\* the waypoints of the collection whose style is one of the given, in order
WithStyle(styles) ==
    SelectSeq(cf.waypoints, LAMBDA w : w.style # None /\ w.style[1] \in styles)

\* C11: airports() is exactly the waypoints of style 2, 4 or 5, outlandings()
\* exactly those of style 3 and landables() exactly those of either kind, each
\* in collection order; no waypoint is in both airports() and outlandings(),
\* and membership agrees with is_airport, is_outlanding and is_landable.
C11_SelectionsByStyle ==
    /\ airports(cf) = WithStyle({2, 4, 5})
    /\ outlandings(cf) = WithStyle({3})
    /\ landables(cf) = WithStyle({2, 3, 4, 5})
    /\ SeqSet(Ids(landables(cf))) = SeqSet(Ids(airports(cf))) \cup SeqSet(Ids(outlandings(cf)))
    /\ SeqSet(Ids(airports(cf))) \cap SeqSet(Ids(outlandings(cf))) = {}
    /\ \A i \in 1 .. Len(cf.waypoints) :
          /\ is_airport(cf.waypoints[i]) <=> cf.waypoints[i].id \in SeqSet(Ids(airports(cf)))
          /\ is_outlanding(cf.waypoints[i])
                <=> cf.waypoints[i].id \in SeqSet(Ids(outlandings(cf)))
          /\ is_landable(cf.waypoints[i]) <=> cf.waypoints[i].id \in SeqSet(Ids(landables(cf)))

\* a loaded file with two airports, an outlanding between them, a waypoint of
\* another style and one without a style
C11_Witness ==
    /\ cpc = "loaded"
    /\ Len(airports(cf)) = 2 /\ Len(outlandings(cf)) = 1 /\ Len(cf.waypoints) = 5
    /\ Len(landables(cf)) = 3 /\ landables(cf)[2].id = outlandings(cf)[1].id
    /\ \E i \in 1 .. 5 : cf.waypoints[i].style = None
(***************************************************************************)
(* Properties of the distance conversions, checked under SpecDistance      *)
(***************************************************************************)
\* the number of steps per unit that format_distance writes: whole feet,
\* hundredths of nautical miles and miles, tenths of metres
StepsPer(u) == IF u = "ft" THEN 1 ELSE IF u = "m" THEN 10 ELSE 100

\* one unit in metres
UnitFactor(u) ==
    IF u = "ft" THEN FT_2_M ELSE IF u = "nm" THEN NM_2_M ELSE IF u = "ml" THEN ML_2_M
    ELSE FloatOfInt(1)

\* the significands of two finite floats x and y brought to the lower of
\* their exponents: [x, y, e], the values x * 2^e and y * 2^e
Aligned(x, y) ==
    [x |-> ShiftUp(x.m, x.e - (IF x.e < y.e THEN x.e ELSE y.e)),
     y |-> ShiftUp(y.m, y.e - (IF x.e < y.e THEN x.e ELSE y.e)),
     e |-> IF x.e < y.e THEN x.e ELSE y.e]

\* |x - y| of two finite floats as it is, not rounded: [m, e]
GapOf(x, y, a) ==
    [m |-> IF x.neg # y.neg THEN BigAdd(a.x, a.y)
           ELSE IF BigGeq(a.x, a.y) THEN BigSub(a.x, a.y)
           ELSE BigSub(a.y, a.x),
     e |-> a.e]

Gap(x, y) == GapOf(x, y, Aligned(x, y))

\* a.x <= a.y
AlignedLeq(a) == BigGeq(a.y, a.x)

\* k * g <= x for sizes g and x and 0 < k < 2^15
WithinOf(g, k, x) == AlignedLeq(Aligned([m |-> BigScale(g.m, k, 0), e |-> g.e], x))

\* C13: a distance formatted in a unit and read back comes back in that unit
\* and within half a step of the formatting precision of the unit.
C13_DistanceRoundTrip ==
    dpc = "parsed" =>
        /\ dback.ok
        /\ dback.unit = du
        /\ ~dback.v.inf
        /\ WithinOf(Gap(dback.v, dd), 2 * StepsPer(du), UnitFactor(du))

(***************************************************************************)
(* Properties of the freq setter, checked under SpecWaypoint               *)
(***************************************************************************)
\* C14: an assignment to freq of a non-empty string that does not match the
\* band pattern raises, and the string is not stored.
C14_FreqOutsideBandRaises ==
    (/\ wop.kind = "set"
     /\ wop.attr = "freq"
     /\ wop.value.t = "str"
     /\ wop.value.s # ""
     /\ ~FreqBand(wop.value.s))
    => /\ wop.raised
       /\ Get(wpt).freq # Some(Strip(wop.value.s))

(***************************************************************************)
(* Properties of openair_to_geojson, checked under SpecOpenair             *)
(***************************************************************************)
\* the rings of the features of the collection
Rings == {Get(ofc).features[k].geometry.coordinates[1] : k \in 1 .. Len(Get(ofc).features)}

\* the airspaces that parse_openair returned
Parsed == {ost.airspaces[k] : k \in 1 .. Len(ost.airspaces)}

\* C15: every polygon feature that openair_to_geojson emits, from DP vertices
\* or from a circle, has a ring whose first and last coordinates are
\* identical: they are one tuple, or two tuples of equal numbers.
C15_RingsClosed ==
    opc = "done" =>
        \A ring \in Rings : Len(ring) >= 1 /\ TupleEq(ring[1], ring[Len(ring)])

\* the ring that openair_to_geojson made of the circle of an airspace: the
\* points of interpolate_circle and the first of them again
ClosedByFirst(asp, ring) ==
    /\ asp.geometry = <<>>
    /\ ~IsNone(asp.circle)
    /\ Len(ring) = n_points + 2
    /\ SubSeq(ring, 1, n_points + 1)
           = interpolate_circle(Get(asp.circle)[1], Get(asp.circle)[2])
    /\ ring[n_points + 2] = ring[1]

\* a finished conversion of a text with an open polygon of three vertices,
\* a circle on the prime meridian whose last point is not its first, and a
\* circle whose radius is not-a-number, as are all of its coordinates
C15_Witness ==
    /\ opc = "done"
    /\ \E asp \in Parsed :
          /\ Len(asp.geometry) = 3
          /\ ~TupleEq(asp.geometry[1], asp.geometry[3])
          /\ Append(asp.geometry, asp.geometry[1]) \in Rings
    /\ \E asp \in Parsed : \E ring \in Rings :
          /\ ClosedByFirst(asp, ring)
          /\ ~Get(asp.circle)[2].inf
          /\ ~FloatEq(ring[n_points + 1].lon, ring[1].lon)
    /\ \E asp \in Parsed : \E ring \in Rings :
          /\ ClosedByFirst(asp, ring)
          /\ IsNaN(Get(asp.circle)[2])
          /\ \A k \in 1 .. Len(ring) : IsNaN(ring[k].lon) /\ IsNaN(ring[k].lat)

(***************************************************************************)
(* Properties of CupFile.loads, checked under SpecCodec                    *)
(***************************************************************************)
\* the index of the first of lines[2 ..] that holds the marker of the related
\* tasks, Len(lines) + 1 when none does
MarkerLine(lines) ==
    SetMin({k \in 2 .. Len(lines) : Contains(Plain(Lower(lines[k])), "--related tasks--")}
               \cup {Len(lines) + 1})

\* the raw data lines: after the header and before the marker, neither empty
\* nor a comment
RawDataLines(lines, marker) ==
    {lines[k] : k \in {j \in 2 .. marker - 1 : lines[j] # "" /\ ~StartsWith(lines[j], "#")}}

\* TRUE when every record of the text is one line
OneLineRecords(lines) == Len(CsvRows(lines)) = Len(lines)

\* C16: loads skips a data line exactly when the same raw line occurred
\* earlier: the number of waypoints is the number of distinct raw data lines.
C16_DedupByRawLine ==
    (cpc = "loaded" /\ OneLineRecords(SplitLines(content)))
    => Len(cf.waypoints)
           = Cardinality(RawDataLines(SplitLines(content), MarkerLine(SplitLines(content))))

\* the text made of lines[1 .. n], each with its line end
RECURSIVE TextOf(_, _)
TextOf(lines, n) == IF n = 0 THEN "" ELSE TextOf(lines, n - 1) \o lines[n] \o "\n"

\* TRUE when s ends with e
EndsWith(s, e) == Len(s) >= Len(e) /\ Sub(s, Len(s) - Len(e) + 1, Len(s)) = e

\* the input has a line with the marker of the related tasks
HasMarker(lines) == MarkerLine(lines) <= Len(lines)

\* C17: when loads reaches the line with the marker of the related tasks it
\* creates no further waypoints and stores the input lines after that line as
\* the task block, also after records of several lines, comments and blank
\* lines; dumps writes the stored block after the separator line.
C17_TasksAfterMarker ==
    /\ (cpc = "loaded" /\ HasMarker(SplitLines(content)))
       => /\ cf.tasks = SubSeq(SplitLines(content), MarkerLine(SplitLines(content)) + 1,
                               Len(SplitLines(content)))
          /\ cf.waypoints
                 = LoadContent(NewCupFile(""),
                         TextOf(SplitLines(content), MarkerLine(SplitLines(content)) - 1),
                         1).cf.waypoints
    /\ cpc = "dumped"
       => EndsWith(d1, "-----Related Tasks-----\n" \o Join(cf.tasks, "\n"))

(***************************************************************************)
(* Properties of the outcomes of a run, checked under SpecRecon            *)
(***************************************************************************)
\* the waypoints in not_found and the waypoints in not_updated, as they were
\* when they were classified
Untouched ==
    SeqSet(run.data_report.not_found)
        \cup {run.data_report.not_updated[k].old : k \in 1 .. Len(run.data_report.not_updated)}

\* C21: a waypoint in not_found or in not_updated stays in the collection with
\* every field unchanged; at the end of a run without add_new in which no
\* waypoint was updated or deleted the collection is the parsed input.
C21_UnmatchedUnchanged ==
    /\ \A w \in Untouched :
           /\ Present(run.cup_file.waypoints, w.id)
           /\ ById(run.cup_file.waypoints, w.id) = w
    /\ (/\ rpc = "done"
        /\ ~rin.add_new
        /\ Len(run.data_report.not_found) + Len(run.data_report.not_updated)
               = Len(airports_in_cup))
       => Get(result).cup_file.waypoints = InputLoad.cf.waypoints

\* a finished run without add_new over several airports, each either without
\* a match or with a match beyond update_r
C21_Witness ==
    /\ rpc = "done"
    /\ ~rin.add_new
    /\ Len(run.data_report.not_found) >= 2
    /\ Len(run.data_report.not_updated) >= 1
    /\ Len(run.data_report.not_found) + Len(run.data_report.not_updated)
           = Len(airports_in_cup)
    /\ run.data_report.not_updated[1].match.elev # run.data_report.not_updated[1].old.elev

\* the row the directory gives for the point of the i-th airport waypoint
\* when asked about that point alone
OwnRow(i) == NearbyAirportsBulk(rin.dir, <<points[i]>>, rin.search_r)[1]

\* the k-th run of at most 500 consecutive points of the file
FileSlice(k) ==
    [j \in 1 .. SetMin({500, Len(points) - (k - 1) * 500}) |->
        points[(k - 1) * 500 + j]]

\* the nearest_bulk queries issued so far, in the order of their issue
NearestQueries == SelectSeq(queries, LAMBDA q : q.kind = "nearest")

\* the lists of the report hold the i-th airport waypoint the way this row
\* of a directory answer classifies it
ClassifiedBy(i, row) ==
    LET id == airports_in_cup[i]
        r == run.data_report
    IN IF IsNone(row.id)
       THEN \E k \in 1 .. Len(r.not_found) : r.not_found[k].id = id
       ELSE IF Get(row.distance) > rin.update_r
       THEN \E k \in 1 .. Len(r.not_updated) :
                /\ r.not_updated[k].old.id = id
                /\ r.not_updated[k].distance = Get(row.distance)
                /\ r.not_updated[k].match.name = Some(DirRecords[Get(row.id)].name)
       ELSE IF DirRecords[Get(row.id)].apt_type # CLOSED
       THEN /\ \E k \in 1 .. Len(r.updated) :
                   r.updated[k].id = id /\ r.updated[k].distance = Get(row.distance)
            /\ DirRecords[Get(row.id)].source_id \in SeqSet(run.seen_ids)
       ELSE IF rin.delete_closed
       THEN \E k \in 1 .. Len(r.deleted) :
                /\ r.deleted[k].old.id = id
                /\ r.deleted[k].distance = Get(row.distance)
                /\ r.deleted[k].match.name = Some(DirRecords[Get(row.id)].name)
       ELSE /\ Listed(r, id) = 0
            /\ DirRecords[Get(row.id)].source_id \in SeqSet(run.seen_ids)

\* C22: the nearest_bulk queries are issued for the consecutive runs of at
\* most 500 points of the file, one query per run and in file order,
\* each with exactly the points of its run; a finished run has issued one for
\* every run of points; and every airport waypoint whose batch is through is
\* classified by the row the directory gives for its own point, also when
\* waypoints of its batch were deleted before it.
C22_BatchRowsAligned ==
    /\ \A k \in 1 .. Len(NearestQueries) :
          /\ NearestQueries[k].batch = k
          /\ NearestQueries[k].points = FileSlice(k)
          /\ Len(NearestQueries[k].points) \in 1 .. 500
          /\ NearestQueries[k].ok => Len(NearestQueries[k].ids) = Len(FileSlice(k))
    /\ rpc \in {"finish", "done"} =>
          Len(NearestQueries) * 500 \in Len(points) .. Len(points) + 499
    /\ \A i \in 1 .. Len(airports_in_cup) :
          BatchDone(i) => ClassifiedBy(i, OwnRow(i))

\* a finished run of more than one batch in which a waypoint was deleted and
\* a later waypoint of the same batch has another record as its match
C22_Witness ==
    /\ rpc = "done"
    /\ Len(NearestQueries) >= 2
    /\ \E i \in 1 .. Len(airports_in_cup) - 1 :
          /\ EntriesOf(run.data_report.deleted, airports_in_cup[i]) # {}
          /\ BatchOf(i + 1) = BatchOf(i)
          /\ ~IsNone(OwnRow(i + 1).id)
          /\ OwnRow(i + 1).id # OwnRow(i).id
\* the number of batches of the run
Batches == (Len(points) + 499) \div 500

\* every airport waypoint of the batches up to k is classified and none of a
\* later batch is in a list of the report
AppliedUpTo(k) ==
    \A i \in 1 .. Len(airports_in_cup) :
        IF BatchOf(i) <= k THEN ClassifiedBy(i, OwnRow(i))
        ELSE Listed(run.data_report, airports_in_cup[i]) = 0

\* the query q is issued in its turn after the queries before
IssuedInTurn(before, q) ==
    /\ q.batch \in 1 .. Batches
    /\ IF q.kind = "nearest"
       THEN /\ AppliedUpTo(q.batch - 1)
            /\ Len(before) = (q.batch - 1) * (IF rin.add_new THEN 2 ELSE 1)
            /\ (rin.add_new /\ q.batch > 1) =>
                   /\ before[Len(before)].kind = "bbox"
                   /\ before[Len(before)].batch = q.batch - 1
       ELSE /\ rin.add_new
            /\ AppliedUpTo(q.batch)
            /\ Len(before) = 2 * q.batch - 1
            /\ before[Len(before)].kind = "nearest"
            /\ before[Len(before)].batch = q.batch
            /\ q.bbox = Bounds(FileSlice(q.batch))
    /\ \A k \in 1 .. Len(before) : before[k].ok

\* C23: every step that issues a directory query issues one query, in its
\* turn: the nearest_bulk query of batch k after the answers of the batches
\* before were applied and, with add_new, after the bounding-box query of
\* batch k - 1; the bounding-box query of batch k only with add_new, right
\* after the nearest answer of batch k was applied, over the bounds of the
\* points of batch k; and the loop ends after one nearest query per batch and,
\* with add_new, one bounding-box query per batch.
C23_QueriesSequential ==
    [][/\ queries' # queries =>
             /\ Len(queries') = Len(queries) + 1
             /\ SubSeq(queries', 1, Len(queries)) = queries
             /\ IssuedInTurn(queries, queries'[Len(queries')])
       /\ (rpc' = "finish" /\ rpc # "finish") =>
             /\ Len(queries') = Batches * (IF rin.add_new THEN 2 ELSE 1)
             /\ rin.add_new \/ \A k \in 1 .. Len(queries') : queries'[k].kind = "nearest"]_vars

\* a finished run with add_new over two batches whose bounding boxes differ
C23_Witness ==
    /\ rpc = "done"
    /\ rin.add_new
    /\ Len(queries) = 4
    /\ queries[2].kind = "bbox" /\ queries[4].kind = "bbox"
    /\ queries[2].bbox # queries[4].bbox
    /\ queries[2].bbox # Bounds(points)
    /\ Len(queries[2].ids) > 0
\* C26: the counts a run returns agree with what it returns beside them:
\* total_wpts_after is total_wpts_before less the deleted plus the added
\* waypoints and is the length of the returned collection, and each of
\* updated, added, deleted, not_found and not_updated is the length of its
\* list.
C26_CountsConsistent ==
    rpc = "done" =>
        LET c == Get(result).counts
            d == Get(result).data
        IN /\ c.total_wpts_after = c.total_wpts_before - Len(d.deleted) + Len(d.added)
           /\ c.total_wpts_after = Len(Get(result).cup_file.waypoints)
           /\ c.total_wpts_before = Len(InputLoad.cf.waypoints)
           /\ c.updated = Len(d.updated)
           /\ c.added = Len(d.added)
           /\ c.deleted = Len(d.deleted)
           /\ c.not_found = Len(d.not_found)
           /\ c.not_updated = Len(d.not_updated)

\* a finished run that deleted a waypoint, added another and left one
\* unmatched
C26_Witness ==
    /\ rpc = "done"
    /\ Get(result).counts.deleted > 0
    /\ Get(result).counts.added > 0
    /\ Get(result).counts.not_found > 0
    /\ Get(result).counts.total_wpts_after # Get(result).counts.total_wpts_before
(***************************************************************************)
(* Properties of parse_openair, checked under SpecOpenair                  *)
(***************************************************************************)
RECURSIVE LinesFrom(_, _, _)
\* the locals of parse_openair after its loop took the lines from the i-th on
LinesFrom(lines, i, st) ==
    IF i > Len(lines) THEN st ELSE LinesFrom(lines, i + 1, AirLine(lines[i], st))

\* what parse_openair returns for these lines alone
AirspacesOf(lines) == _save_current_airspace(LinesFrom(lines, 1, AirStart)).airspaces

\* the lines that start with the airspace-class marker
BlockStarts(lines) == {i \in 1 .. Len(lines) : StartsWith(Strip(lines[i]), "AC")}

\* the block that the AC line i starts: the lines up to the next AC line
BlockAt(lines, i) ==
    SubSeq(lines, i, SetMin({j \in BlockStarts(lines) \cup {Len(lines) + 1} : j > i}) - 1)

RECURSIVE BlockAirspaces(_, _)
\* the airspaces of the blocks that the AC lines from the i-th line on start,
\* each block parsed alone, in the order of the blocks
BlockAirspaces(lines, i) ==
    IF i > Len(lines) THEN <<>>
    ELSE IF i \in BlockStarts(lines)
    THEN AirspacesOf(BlockAt(lines, i)) \o BlockAirspaces(lines, i + 1)
    ELSE BlockAirspaces(lines, i + 1)

\* C24: what parse_openair returns is, in input order, one airspace for every
\* block started by an AC line that has vertices or a circle centre, each
\* made of the lines of its own block alone.
C24_OneFeaturePerBlock ==
    opc = "done" =>
        /\ ost.airspaces = BlockAirspaces(SplitLines(otext), 1)
        /\ \A i \in BlockStarts(SplitLines(otext)) :
              Len(AirspacesOf(BlockAt(SplitLines(otext), i))) <= 1
\* C27: the collection that openair_to_geojson makes of the text that
\* geojson_to_openair wrote for a collection of Polygon features has as many
\* features as that collection, in its order, each with a ring of as many
\* coordinates, whether the features have a class or not.
C27_RoundTripKeepsFeatures ==
    (opc = "done" /\ ~IsNone(og)) =>
        /\ Len(Get(ofc).features) = Len(Get(og).features)
        /\ \A k \in 1 .. Len(Get(og).features) :
              Len(Get(ofc).features[k].geometry.coordinates[1])
                  = Len(Get(og).features[k].geometry.coordinates[1])

\* C28: parse_openair of utils/units.py and parse_openair of
\* utils/naviter/openair.py end alike on every text: both raise, or both
\* return the same airspaces, with the same properties, vertices, circle and
\* activation times.
C28_ParsersAgree ==
    (opc \in {"done", "raised"} /\ ~IsNone(ures)) =>
        /\ Get(ures).raised <=> opc = "raised"
        /\ opc = "done" => Get(ures).airspaces = ost.airspaces

(***************************************************************************)
(* Properties of parse_line_to_lon_lat_any, checked under SpecLine         *)
(***************************************************************************)
\* C25: the parsers are tried in the order DP, AIP, eAPI and the first that
\* takes the line ends the call; the tuple returned is (lon, lat) of the
\* coordinates of the line (to a hundredth of an arc second), whichever
\* notation it is in; a line that none takes raises.
C25_FirstSuccessLonLat ==
    /\ lstep = "done" =>
          /\ ~IsNone(lres)
          /\ lin.known => <<ArcOf(Get(lres)[1]), ArcOf(Get(lres)[2])>> = <<lin.lon, lin.lat>>
    /\ lstep = "aip" => ~parse_line_to_lon_lat(lin.text).ok
    /\ lstep = "eapi" => ~parse_line_to_lon_lat(lin.text).ok /\ ~parse_aip_point(lin.text).ok
    /\ lstep = "raised" =>
          /\ lres = None
          /\ ~parse_line_to_lon_lat(lin.text).ok
          /\ ~parse_aip_point(lin.text).ok
          /\ ~parse_eapi_line(lin.text).ok
(***************************************************************************)
(* Properties of handle_upload, checked under SpecUpload                   *)
(***************************************************************************)
\* C29: the stage is RUNNING from the first step of the handler until its
\* end; a handler that has ended is in DONE or in ERROR; it is in DONE, with
\* a zip stored, whenever update_airports_in_cup returned; and it is in ERROR
\* only with a message and only when reading the upload or
\* update_airports_in_cup raised.
C29_UploadEndsDoneOrError ==
    /\ hpc = "read" => stage = RUNNING
    /\ hpc = "ended" =>
          /\ stage \in {DONE, ERROR}
          /\ "update returned" \in hlog => (stage = DONE /\ ~IsNone(zip_file))
          /\ stage = ERROR =>
                /\ error_message # ""
                /\ "read raised" \in hlog \/ "update raised" \in hlog
(***************************************************************************)
(* Properties of AirportUpdater, checked under SpecUpdater                 *)
(***************************************************************************)
\* the source_ids of the airports of all the files of the source
CompleteSourceIds ==
    UNION {SourceIdsOf([k \in 1 .. Len(filter_by_type(tin.blobs[t])) |->
                           construct_airport_from_oap(filter_by_type(tin.blobs[t])[k])]) :
              t \in 1 .. Len(tin.blobs)}

\* the source_ids of the airports of the files whose task failed
FailedSourceIds ==
    UNION {SourceIdsOf([k \in 1 .. Len(filter_by_type(tin.blobs[t])) |->
                           construct_airport_from_oap(filter_by_type(tin.blobs[t])[k])]) :
              t \in tin.fails}

\* C30: at the end of a run the airports categorized as removed are airports
\* of the table that are in no file of the source; none of them is an
\* airport of a file whose task failed, and every such airport that was in
\* the table is still there.
C30_RemovesOnlyAbsent ==
    tpc = "done" =>
        /\ Get(removed) \subseteq TableIds(tin.existing) \ CompleteSourceIds
        /\ Get(removed) \cap FailedSourceIds = {}
        /\ FailedSourceIds \cap TableIds(tin.existing) \subseteq TableIds(tdb)
====
